---- MODULE Spec2Model ----
(***************************************************************************)
(* A model of the educational TCP simulator: the congestion-control        *)
(* algorithms (tcp_congestion.py), the per-endpoint connection             *)
(* (tcp_connection.py) and the virtual link with its driver                *)
(* (tcp_simulator.py).                                                     *)
(*                                                                         *)
(* Number representation.  The source computes with Python floats.  The    *)
(* model uses fixed point:                                                 *)
(*   - congestion quantities (cwnd, ssthresh, w_max) in thousandths of a   *)
(*     segment (MSS = 1000 stands for the float 1.0);                      *)
(*   - times (time.time(), rto, srtt, rttvar) in microseconds              *)
(*     (Second = 1000000 stands for the float 1.0);                        *)
(*   - Cubic's k in hundredths of a second.                                *)
(* Divisions round towards minus infinity.                                 *)
(***************************************************************************)
EXTENDS Integers, Sequences, FiniteSets, TLC

\* ------------------------------------------------------------------ bounds
\* number of runs of the driver loop in one behaviour
MaxAdvances == 10
\* number of those runs that come late (after a stall of the driver)
MaxStalls == 2
\* number of payloads the server hands to send_data in one behaviour
MaxServerSends == 3
\* number of segments the link may lose in one behaviour
MaxLoss == 1
\* number of runs of the driver loop before the user connects
MaxIdleAdvances == 1
\* number of runs of the driver loop in a behaviour that only shakes hands
MaxHandshakeAdvances == 45
\* number of runs of the driver loop, and of presses of the GUI's send
\* button, in a behaviour that sends bursts
MaxBurstAdvances == 13
MaxBursts == 2
\* number of calls made on a congestion controller driven on its own
MaxCalls == 7

\* ------------------------------------------------------------------- units
MSS == 1000
Second == 1000000

Max(a, b) == IF a >= b THEN a ELSE b
Min(a, b) == IF a <= b THEN a ELSE b
Abs(a) == IF a >= 0 THEN a ELSE 0 - a

\* x / y on fixed-point congestion quantities
FDiv(x, y) == (x * MSS) \div y

\* the integer cube root, for Cubic's ** (1.0 / 3.0)
RECURSIVE CbrtSearch(_, _, _)
CbrtSearch(n, lo, hi) ==
    IF lo >= hi THEN lo
    ELSE LET mid == (lo + hi + 1) \div 2
         IN  IF mid * mid * mid <= n THEN CbrtSearch(n, mid, hi)
             ELSE CbrtSearch(n, lo, mid - 1)

ICbrt(n) == CbrtSearch(n, 0, 1200)

\* -------------------------------------------------- congestion algorithms
AlgNames == {"Reno", "NewReno", "Cubic", "BBR"}

\* CongestionAlgorithm.__init__ and the subclasses' __init__
InitAlg(name) ==
    [name |-> name,
     congestion_window |-> MSS,
     ssthresh |-> 16 * MSS,
     congestion_state |-> "slow_start",
     ssthresh_lowered |-> FALSE,
     recover |-> 0,
     w_max |-> 0,
     k |-> 0,
     epoch_start |-> 0,
     bbr_state |-> "STARTUP"]

\* --- Reno
RenoOnAckReceived(a) ==
    IF a.congestion_state = "slow_start"
    THEN LET cw == a.congestion_window + MSS
         IN  [a EXCEPT !.congestion_window = cw,
                       !.congestion_state =
                           IF cw >= a.ssthresh THEN "congestion_avoidance"
                           ELSE "slow_start"]
    ELSE IF a.congestion_state = "congestion_avoidance"
    THEN [a EXCEPT !.congestion_window =
                       a.congestion_window + FDiv(MSS, a.congestion_window)]
    ELSE a

\* an ssthresh rule without the latch: every loss sets max(2, cwnd / 2)
RenoLowerSsthreshUnlatched(a) ==
    [a EXCEPT !.ssthresh = Max(2 * MSS, a.congestion_window \div 2),
              !.ssthresh_lowered = TRUE]

\* the ssthresh rule shared by both branches of RenoAlgorithm.on_packet_loss
RenoLowerSsthresh(a) ==
    LET new_ssthresh == Max(2 * MSS, a.congestion_window \div 2)
    IN  IF ~a.ssthresh_lowered
        THEN [a EXCEPT !.ssthresh = new_ssthresh, !.ssthresh_lowered = TRUE]
        ELSE [a EXCEPT !.ssthresh = Min(a.ssthresh, new_ssthresh)]

\* a fast retransmit that deflates to ssthresh without the three segments
RenoOnPacketLossNoInflation(a, loss_type) ==
    IF loss_type = "timeout"
    THEN [RenoLowerSsthresh(a) EXCEPT !.congestion_window = MSS,
                                      !.congestion_state = "slow_start"]
    ELSE IF loss_type = "fast_retransmit"
    THEN LET b == RenoLowerSsthresh(a)
         IN  [b EXCEPT !.congestion_window = b.ssthresh,
                       !.congestion_state = "fast_recovery"]
    ELSE a

\* RenoAlgorithm.on_packet_loss
RenoOnPacketLoss(a, loss_type) ==
    IF loss_type = "timeout"
    THEN [RenoLowerSsthresh(a) EXCEPT !.congestion_window = MSS,
                                      !.congestion_state = "slow_start"]
    ELSE IF loss_type = "fast_retransmit"
    THEN LET b == RenoLowerSsthresh(a)
         IN  [b EXCEPT !.congestion_window = b.ssthresh + 3 * MSS,
                       !.congestion_state = "fast_recovery"]
    ELSE a

RenoOnFastRecoveryExit(a) ==
    [a EXCEPT !.congestion_window = a.ssthresh,
              !.congestion_state = "congestion_avoidance"]

\* --- NewReno
NewRenoOnAckReceived(a, is_partial_ack, is_full_ack) ==
    IF a.congestion_state = "slow_start"
    THEN LET cw == a.congestion_window + MSS
         IN  [a EXCEPT !.congestion_window = cw,
                       !.congestion_state =
                           IF cw >= a.ssthresh THEN "congestion_avoidance"
                           ELSE "slow_start"]
    ELSE IF a.congestion_state = "congestion_avoidance"
    THEN [a EXCEPT !.congestion_window =
                       a.congestion_window + FDiv(MSS, a.congestion_window)]
    ELSE IF a.congestion_state = "fast_recovery"
    THEN IF is_partial_ack
         THEN [a EXCEPT !.congestion_window = a.congestion_window + MSS]
         ELSE IF is_full_ack
         THEN [a EXCEPT !.congestion_window = a.ssthresh,
                        !.congestion_state = "congestion_avoidance"]
         ELSE a
    ELSE a

NewRenoOnPacketLoss(a, loss_type) ==
    LET new_ssthresh == Max(2 * MSS, a.congestion_window \div 2)
    IN  IF loss_type = "timeout"
        THEN [a EXCEPT !.ssthresh = new_ssthresh,
                       !.congestion_window = MSS,
                       !.congestion_state = "slow_start"]
        ELSE IF loss_type = "fast_retransmit"
        THEN [a EXCEPT !.ssthresh = new_ssthresh,
                       !.congestion_window = new_ssthresh + 3 * MSS,
                       !.congestion_state = "fast_recovery"]
        ELSE a

NewRenoOnFastRecoveryExit(a) ==
    [a EXCEPT !.congestion_window = a.ssthresh,
              !.congestion_state = "congestion_avoidance"]

\* --- Cubic (c = 0.4, beta = 0.7)
\* beta * x
CubicBeta(x) == (x * 7) \div 10

\* k = ((w_max * (1 - beta)) / c) ** (1/3) seconds, kept in centiseconds:
\* 100 * (0.75 * w_max / MSS) ** (1/3) = (750 * w_max) ** (1/3)
CubicUpdateK(a) ==
    IF a.w_max <= 0 THEN [a EXCEPT !.k = 0]
    ELSE [a EXCEPT !.k = ICbrt(750 * a.w_max)]

\* c * (t - k) ** 3 + w_max, t in microseconds; with d = t - k in
\* centiseconds the cubic term is 0.4 * (d / 100) ** 3 * MSS = 2 * d^3 / 5000
CubicCwnd(a, t) ==
    IF a.w_max <= 0 THEN a.ssthresh
    ELSE LET d == (t \div 10000) - a.k
         IN  ((((((d * d) \div 10) * d) \div 100) * 2) \div 5) + a.w_max

CubicOnAckReceived(a, time) ==
    IF a.congestion_state = "slow_start"
    THEN LET cw == a.congestion_window + MSS
         IN  IF cw >= a.ssthresh
             THEN CubicUpdateK([a EXCEPT !.congestion_window = cw,
                                         !.congestion_state = "congestion_avoidance",
                                         !.w_max = cw,
                                         !.epoch_start = time])
             ELSE [a EXCEPT !.congestion_window = cw]
    ELSE IF a.congestion_state = "congestion_avoidance"
    THEN LET target == CubicCwnd(a, time - a.epoch_start)
             cw == a.congestion_window
         IN  IF cw < target
             THEN [a EXCEPT !.congestion_window =
                                Min(target, cw + FDiv(target - cw, cw))]
             ELSE [a EXCEPT !.congestion_window = cw + FDiv(MSS \div 10, cw)]
    ELSE a

CubicOnPacketLoss(a, loss_type, time) ==
    IF loss_type = "timeout"
    THEN [a EXCEPT !.w_max = a.congestion_window,
                   !.ssthresh = Max(2 * MSS, CubicBeta(a.congestion_window)),
                   !.congestion_window = MSS,
                   !.congestion_state = "slow_start"]
    ELSE IF loss_type = "fast_retransmit"
    THEN CubicUpdateK(
             [a EXCEPT !.w_max = a.congestion_window,
                       !.ssthresh = Max(2 * MSS, CubicBeta(a.congestion_window)),
                       !.congestion_window = CubicBeta(a.congestion_window),
                       !.congestion_state = "fast_recovery",
                       !.epoch_start = time])
    ELSE a

\* a fast-recovery exit that deflates the window to ssthresh, as Reno's does
CubicOnFastRecoveryExitDeflates(a, time) ==
    CubicUpdateK([a EXCEPT !.congestion_window = a.ssthresh,
                           !.congestion_state = "congestion_avoidance",
                           !.epoch_start = time])

CubicOnFastRecoveryExit(a, time) ==
    CubicUpdateK([a EXCEPT !.congestion_state = "congestion_avoidance",
                           !.epoch_start = time])

\* --- BBR (on_ack_received is always called without rtt, so rtt_min and
\* rt_prop keep their initial values and are left out)
BBROnAckReceived(a) ==
    IF a.bbr_state = "STARTUP"
    THEN LET cw == a.congestion_window + MSS
         IN  IF cw >= a.ssthresh
             THEN [a EXCEPT !.congestion_window = cw,
                            !.bbr_state = "DRAIN",
                            !.congestion_state = "congestion_avoidance"]
             ELSE [a EXCEPT !.congestion_window = cw]
    ELSE IF a.bbr_state = "DRAIN"
    THEN IF a.congestion_window > a.ssthresh
         THEN [a EXCEPT !.congestion_window =
                            Max(a.ssthresh, a.congestion_window - MSS \div 2)]
         ELSE [a EXCEPT !.bbr_state = "PROBE_BW"]
    ELSE IF a.bbr_state = "PROBE_BW"
    THEN [a EXCEPT !.congestion_window =
                       a.congestion_window + FDiv(MSS \div 10, a.congestion_window),
                   !.congestion_state = "congestion_avoidance"]
    ELSE IF a.bbr_state = "PROBE_RTT"
    THEN IF a.congestion_window > 4 * MSS
         THEN [a EXCEPT !.congestion_window =
                            Max(4 * MSS, a.congestion_window - MSS \div 2)]
         ELSE [a EXCEPT !.bbr_state = "PROBE_BW"]
    ELSE a

\* a loss response that starts the phases over after a timeout
BBROnPacketLossRestarts(a, loss_type) ==
    IF loss_type = "timeout"
    THEN [a EXCEPT !.ssthresh = Max(2 * MSS, a.congestion_window \div 2),
                   !.congestion_window = Max(4 * MSS, a.congestion_window \div 2),
                   !.bbr_state = "STARTUP"]
    ELSE IF loss_type = "fast_retransmit"
    THEN [a EXCEPT !.ssthresh = Max(2 * MSS, (a.congestion_window * 7) \div 8),
                   !.congestion_window = (a.congestion_window * 7) \div 8]
    ELSE a

BBROnPacketLoss(a, loss_type) ==
    IF loss_type = "timeout"
    THEN [a EXCEPT !.ssthresh = Max(2 * MSS, a.congestion_window \div 2),
                   !.congestion_window = Max(4 * MSS, a.congestion_window \div 2)]
    ELSE IF loss_type = "fast_retransmit"
    THEN [a EXCEPT !.ssthresh = Max(2 * MSS, (a.congestion_window * 7) \div 8),
                   !.congestion_window = (a.congestion_window * 7) \div 8]
    ELSE a

BBROnFastRecoveryExit(a) ==
    [a EXCEPT !.congestion_state = "congestion_avoidance"]

\* --- dynamic dispatch on the algorithm object; time stands for time.time()
OnAckReceived(a, time) ==
    CASE a.name = "Reno" -> RenoOnAckReceived(a)
      [] a.name = "NewReno" -> NewRenoOnAckReceived(a, FALSE, FALSE)
      [] a.name = "Cubic" -> CubicOnAckReceived(a, time)
      [] a.name = "BBR" -> BBROnAckReceived(a)

OnPacketLoss(a, loss_type, time) ==
    CASE a.name = "Reno" -> RenoOnPacketLoss(a, loss_type)
      [] a.name = "NewReno" -> NewRenoOnPacketLoss(a, loss_type)
      [] a.name = "Cubic" -> CubicOnPacketLoss(a, loss_type, time)
      [] a.name = "BBR" -> BBROnPacketLoss(a, loss_type)

OnFastRecoveryExit(a, time) ==
    CASE a.name = "Reno" -> RenoOnFastRecoveryExit(a)
      [] a.name = "NewReno" -> NewRenoOnFastRecoveryExit(a)
      [] a.name = "Cubic" -> CubicOnFastRecoveryExit(a, time)
      [] a.name = "BBR" -> BBROnFastRecoveryExit(a)

\* ------------------------------------------------------------- segments
ClientPort == 5000
ServerPort == 8000
HeaderSize == 20

Endpoints == {"client", "server"}
Peer(e) == IF e = "client" THEN "server" ELSE "client"

\* Optional[float] None
None == 0 - 1

\* TCPPacket.get_size
GetSize(packet) == HeaderSize + Len(packet.data)

HasFlag(packet, flag) == flag \in packet.flags

\* the empty dict of duplicate_ack_count
EmptyMap == [x \in {} |-> 0]
MapGet(m, key, default) == IF key \in DOMAIN m THEN m[key] ELSE default
MapPut(m, key, val) == [x \in (DOMAIN m) \cup {key} |-> IF x = key THEN val ELSE m[x]]

\* ----------------------------------------------------------- SYN cookies
\* cookie_time_step = 64 seconds
CookieTimeStep == 64

\* HMAC-SHA256(secret, "isn:src:dst:slot") truncated to its first bytes: a
\* keyed hash, modelled by a mixing function that separates the inputs the
\* model uses; the range is cut to 2^20 to stay inside the checker's integers.
GenerateSynCookie(secret, client_isn, src_port, dst_port, time_slot) ==
    (secret + client_isn * 7919 + src_port * 31 + dst_port * 17 + time_slot * 104729)
        % 1048576

CookieTimeSlot(time) == time \div (CookieTimeStep * Second)

\* a validation that also accepts the slot before the previous one
ValidateSynCookieThreeSlots(secret, cookie, client_isn, src_port, dst_port, time) ==
    LET curr_slot == CookieTimeSlot(time)
    IN  \/ cookie = GenerateSynCookie(secret, client_isn, src_port, dst_port, curr_slot)
        \/ cookie = GenerateSynCookie(secret, client_isn, src_port, dst_port, curr_slot - 1)
        \/ cookie = GenerateSynCookie(secret, client_isn, src_port, dst_port, curr_slot - 2)

ValidateSynCookie(secret, cookie, client_isn, src_port, dst_port, time) ==
    LET curr_slot == CookieTimeSlot(time)
    IN  \/ cookie = GenerateSynCookie(secret, client_isn, src_port, dst_port, curr_slot)
        \/ cookie = GenerateSynCookie(secret, client_isn, src_port, dst_port, curr_slot - 1)

\* ------------------------------------------------------------ connection
\* TCPConnection.__init__; metric says whether on_metric_change is bound
\* (TCPSimulator.create_connection binds it for the client only)
InitConn(local_port, remote_port, is_server, algorithm, isn, secret, metric) ==
    [local_port |-> local_port,
     remote_port |-> remote_port,
     is_server |-> is_server,
     seq_num |-> IF is_server THEN 0 ELSE isn,
     ack_num |-> 0,
     remote_seq_num |-> 0,
     remote_ack_num |-> 0,
     state |-> IF is_server THEN "LISTEN" ELSE "CLOSED",
     alg |-> InitAlg(algorithm),
     congestion_window |-> InitAlg(algorithm).congestion_window,
     ssthresh |-> InitAlg(algorithm).ssthresh,
     congestion_state |-> InitAlg(algorithm).congestion_state,
     send_buffer |-> <<>>,
     receive_buffer |-> <<>>,
     last_paced_send_time |-> 0,
     unacked_packets |-> <<>>,
     handshake_unacked |-> <<>>,
     cookie_secret |-> secret,
     rto |-> 3 * Second,
     handshake_rto |-> 3 * Second,
     srtt |-> None,
     rttvar |-> None,
     duplicate_ack_count |-> EmptyMap,
     last_ack_num |-> 0,
     on_metric_change |-> metric,
     stats |-> [packets_sent |-> 0, packets_received |-> 0, bytes_sent |-> 0,
                bytes_received |-> 0, retransmissions |-> 0, duplicate_acks |-> 0]]

\* min_pacing_interval = 0.05 s
MinPacingInterval == Second \div 20

\* the callbacks: every call of an observer is appended to the action's log
Emit(w, ev) == [w EXCEPT !.events = Append(@, ev)]

Metric(w, e, name, value) ==
    IF w.conn[e].on_metric_change
    THEN Emit(w, [type |-> "metric", who |-> e, name |-> name, value |-> value])
    ELSE w

MetricCwndSsthresh(w, e) ==
    Metric(Metric(w, e, "cwnd", w.conn[e].congestion_window),
           e, "ssthresh", w.conn[e].ssthresh)

\* a connection that stores the returned ssthresh and phase but keeps its
\* own congestion_window
SyncAlgKeepsWindow(c, a) ==
    [c EXCEPT !.alg = a,
              !.ssthresh = a.ssthresh,
              !.congestion_state = a.congestion_state]

\* the connection stores what its controller returns (the three assignments
\* after every call of the controller)
SyncAlg(c, a) ==
    [c EXCEPT !.alg = a,
              !.congestion_window = a.congestion_window,
              !.ssthresh = a.ssthresh,
              !.congestion_state = a.congestion_state]

\* TCPConnection.set_state
SetState(w, e, new_state) ==
    LET c == w.conn[e]
    IN  IF c.state = new_state THEN w
        ELSE LET w1 == Emit([w EXCEPT !.conn[e].state = new_state],
                            [type |-> "state_change", who |-> e,
                             old |-> c.state, new |-> new_state])
             IN  IF new_state = "ESTABLISHED" /\ c.on_metric_change
                 THEN MetricCwndSsthresh(
                          [w1 EXCEPT !.conn[e].congestion_window = c.alg.congestion_window,
                                     !.conn[e].ssthresh = c.alg.ssthresh,
                                     !.conn[e].congestion_state = c.alg.congestion_state],
                          e)
                 ELSE w1

\* TCPConnection.send_packet: the statistics (the packet's ports and window
\* are rewritten with the values _create_packet already gave them)
SendPacket(w, e, packet, is_retransmit) ==
    [w EXCEPT !.conn[e].stats.retransmissions = IF is_retransmit THEN @ + 1 ELSE @,
              !.conn[e].stats.packets_sent = @ + 1,
              !.conn[e].stats.bytes_sent = @ + GetSize(packet)]

\* TCPConnection._create_packet: the packet built from the current numbers
PacketOf(c, flags, data) ==
    [source_port |-> c.local_port,
     dest_port |-> c.remote_port,
     seq_num |-> c.seq_num,
     ack_num |-> c.ack_num,
     flags |-> flags,
     data |-> data]

\* TCPConnection._create_packet: the sequence number after building it
SeqAfter(c, flags, data) ==
    IF "SYN" \in flags \/ "FIN" \in flags THEN c.seq_num + 1
    ELSE IF Len(data) > 0 THEN c.seq_num + Len(data)
    ELSE c.seq_num

\* _create_packet as a step on the world; the packet is left in ret
CreatePacket(w, e, flags, data) ==
    [w EXCEPT !.ret = <<PacketOf(w.conn[e], flags, data)>>,
              !.conn[e].seq_num = SeqAfter(w.conn[e], flags, data)]

\* TCPConnection._packet_end_seq
PacketEndSeq(packet) ==
    packet.seq_num + Len(packet.data)
        + (IF HasFlag(packet, "SYN") \/ HasFlag(packet, "FIN") THEN 1 ELSE 0)

\* ------------------------------------------------------------------ link
\* NetworkSimulator.transmit_packet.  random.random() < loss_rate is a
\* choice of the environment: the action names in w.drops which of its
\* calls of transmit_packet lose their segment; w.droppable says which
\* segments (by sender, and by whether they carry data) the scenario lets the
\* link lose, and a loss outside it is refused.
TransmitPacket(w, packet, dest) ==
    LET idx == w.nTx + 1
        transmission_time == (GetSize(packet) * Second) \div (1024 * w.bandwidth)
        arrival_time == w.now + w.delay + transmission_time
    IN  IF idx \in w.drops
        THEN [w EXCEPT !.nTx = idx,
                       !.refused = @ \/ ~w.droppable[packet.source_port][Len(packet.data) > 0],
                       !.lost = @ + 1,
                       !.wire = Append(@, [packet |-> packet, status |-> "LOST"]),
                       !.events = Append(@, [type |-> "link", status |-> "LOST",
                                             packet |-> packet, dest |-> dest])]
        ELSE [w EXCEPT !.nTx = idx,
                       !.queue = Append(@, [packet |-> packet,
                                            arrival_time |-> arrival_time,
                                            dest |-> dest]),
                       !.wire = Append(@, [packet |-> packet, status |-> "TRANSMITTING"]),
                       !.events = Append(@, [type |-> "link", status |-> "TRANSMITTING",
                                             packet |-> packet, dest |-> dest])]

\* TCPSimulator._on_retransmit_needed, bound to on_retransmit_needed of both
\* connections
OnRetransmitNeeded(w, e, packet) ==
    TransmitPacket(Emit(w, [type |-> "retransmit_needed", who |-> e, packet |-> packet]),
                   packet,
                   IF packet.source_port = w.conn["client"].local_port
                   THEN "server" ELSE "client")

\* ------------------------------------------------------- sending of data
\* the congestion-window check of send_data
WindowFull(c) == Len(c.unacked_packets) >= c.congestion_window \div MSS

\* TCPConnection.send_data; the returned packet (or None) is left in ret
SendData(w, e, data) ==
    LET c == w.conn[e]
    IN  IF c.state # "ESTABLISHED" THEN [w EXCEPT !.ret = <<>>]
        ELSE IF WindowFull(c)
        THEN [w EXCEPT !.ret = <<>>, !.conn[e].send_buffer = Append(@, data)]
        ELSE LET packet == PacketOf(c, {"PSH", "ACK"}, data)
                 w1 == CreatePacket(w, e, {"PSH", "ACK"}, data)
                 w2 == [w1 EXCEPT !.conn[e].unacked_packets =
                                      Append(@, [packet |-> packet,
                                                 send_time |-> w.now,
                                                 retransmit_count |-> 0,
                                                 base_rto |-> c.rto,
                                                 first_send_time |-> w.now])]
                 w3 == Emit(w2, [type |-> "first_send", who |-> e, via |-> "send_data",
                                 packet |-> packet,
                                 count |-> Len(w2.conn[e].unacked_packets),
                                 cwnd |-> c.congestion_window])
                 w4 == MetricCwndSsthresh(w3, e)
             IN  [SendPacket(w4, e, packet, FALSE) EXCEPT !.ret = <<packet>>]

\* an estimator that updates srtt before it computes rttvar
UpdateRtoSrttFirst(c, sample_rtt) ==
    IF sample_rtt <= 0 THEN c
    ELSE LET c1 == IF c.srtt = None
                   THEN [c EXCEPT !.srtt = sample_rtt, !.rttvar = sample_rtt \div 2]
                   ELSE [c EXCEPT !.srtt = (7 * c.srtt + sample_rtt) \div 8,
                                  !.rttvar = (3 * c.rttvar
                                              + Abs((7 * c.srtt + sample_rtt) \div 8
                                                    - sample_rtt)) \div 4]
         IN  [c1 EXCEPT !.rto = c1.srtt + Max(Second, 4 * c1.rttvar)]

\* TCPConnection._update_rto (RFC 6298, alpha = 1/8, beta = 1/4)
UpdateRto(c, sample_rtt) ==
    IF sample_rtt <= 0 THEN c
    ELSE LET c1 == IF c.srtt = None
                   THEN [c EXCEPT !.srtt = sample_rtt, !.rttvar = sample_rtt \div 2]
                   ELSE [c EXCEPT !.rttvar = (3 * c.rttvar + Abs(c.srtt - sample_rtt)) \div 4,
                                  !.srtt = (7 * c.srtt + sample_rtt) \div 8]
         IN  [c1 EXCEPT !.rto = c1.srtt + Max(Second, 4 * c1.rttvar)]

\* ------------------------------------------------------------ handle_ack
\* min(self.unacked_packets, key=seq_num): the first entry of least seq_num
EarliestUnacked(unacked) ==
    CHOOSE i \in 1..Len(unacked) :
        /\ \A j \in 1..Len(unacked) : unacked[i].packet.seq_num <= unacked[j].packet.seq_num
        /\ \A j \in 1..(i - 1) : unacked[j].packet.seq_num # unacked[i].packet.seq_num

\* the calls of on_metric_change between two points of an action's log
MetricsBetween(before, after, e) ==
    SelectSeq(SubSeq(after.events, Len(before.events) + 1, Len(after.events)),
              LAMBDA ev : ev.type = "metric" /\ ev.who = e)

\* the calls of on_retransmit_needed between two points of an action's log
Notified(before, after, e) ==
    SelectSeq(SubSeq(after.events, Len(before.events) + 1, Len(after.events)),
              LAMBDA ev : ev.type = "retransmit_needed" /\ ev.who = e)

\* a fast retransmit that forgets to count the retransmission
FastRetransmitUncounted(w, e, ack_num) ==
    LET c == w.conn[e]
        i == EarliestUnacked(c.unacked_packets)
        packet == c.unacked_packets[i].packet
        w1 == [w EXCEPT !.conn[e].unacked_packets[i].send_time = w.now]
        w2 == Metric(w1, e, "fast_retx_event", packet.seq_num)
        w3 == [w2 EXCEPT !.conn[e].duplicate_ack_count = MapPut(@, ack_num, 0)]
        w4 == [w3 EXCEPT !.conn[e] =
                             SyncAlg(@, OnPacketLoss(c.alg, "fast_retransmit", w.now))]
        w5 == OnRetransmitNeeded(MetricCwndSsthresh(w4, e), e, packet)
    IN  [w5 EXCEPT !.ret = <<>>]

\* the fast-retransmit branch of handle_ack, after the counter has been raised
FastRetransmit(w, e, ack_num) ==
    LET c == w.conn[e]
        i == EarliestUnacked(c.unacked_packets)
        packet == c.unacked_packets[i].packet
        w1 == [w EXCEPT !.conn[e].unacked_packets[i].retransmit_count = @ + 1,
                        !.conn[e].unacked_packets[i].send_time = w.now]
        w2 == Metric(w1, e, "fast_retx_event", packet.seq_num)
        w3 == [w2 EXCEPT !.conn[e].duplicate_ack_count = MapPut(@, ack_num, 0)]
        w4 == [w3 EXCEPT !.conn[e] =
                             SyncAlg(@, OnPacketLoss(c.alg, "fast_retransmit", w.now))]
        w5 == OnRetransmitNeeded(MetricCwndSsthresh(w4, e), e, packet)
    IN  [w5 EXCEPT !.ret = <<>>]

\* an entry that stays although the ACK covers it exactly
RemainedOffByOne(p, ack_num) == PacketEndSeq(p.packet) >= ack_num

\* the test that puts an entry on the list remained
Remained(p, ack_num) == PacketEndSeq(p.packet) > ack_num

\* the loop that removes the acknowledged entries and samples their RTT
RECURSIVE RemoveAcked(_, _, _, _, _)
RemoveAcked(w, e, ack_num, old, i) ==
    IF i > Len(old) THEN w
    ELSE LET p == old[i]
         IN  IF Remained(p, ack_num)
             THEN RemoveAcked([w EXCEPT !.conn[e].unacked_packets = Append(@, p)],
                              e, ack_num, old, i + 1)
             ELSE LET sample_rtt == w.now - p.first_send_time
                      w1 == [w EXCEPT !.conn[e] = UpdateRto(@, sample_rtt)]
                      w2 == Emit(w1, [type |-> "rtt_sample", who |-> e, entry |-> p,
                                      sample |-> sample_rtt,
                                      before |-> w.conn[e], after |-> w1.conn[e]])
                  IN  RemoveAcked(w2, e, ack_num, old, i + 1)

\* the loop that sends buffered data while the window allows
RECURSIVE DrainInAck(_, _)
DrainInAck(w, e) ==
    LET c == w.conn[e]
        \* the packet of the last send_data that returned one is the result
        Last(w1, w2) == IF w2.ret = <<>> THEN [w2 EXCEPT !.ret = w1.ret] ELSE w2
        Sent(w1) == IF w1.ret # <<>> THEN Last(w1, DrainInAck(w1, e)) ELSE w1
    IN  IF c.send_buffer # <<>> /\ Len(c.unacked_packets) < c.congestion_window \div MSS
        THEN Sent(SendData([w EXCEPT !.conn[e].send_buffer = Tail(@), !.ret = <<>>],
                           e, Head(c.send_buffer)))
        ELSE [w EXCEPT !.ret = <<>>]

\* handle_ack from the removal of acknowledged entries to the end; pre is the
\* connection when handle_ack was entered and count the duplicate count of
\* this ACK (0 when it is no duplicate), both for the log only
AckTail(w, e, ack_num, pre, count) ==
    LET old == w.conn[e].unacked_packets
        Logged(w2, w4) ==
            Emit(w4, [type |-> "handle_ack", who |-> e, ack_num |-> ack_num,
                      count |-> count, fast_retx |-> FALSE,
                      pre |-> pre, mid |-> w2.conn[e], post |-> w4.conn[e],
                      notified |-> Notified(w, w4, e),
                      metrics |-> MetricsBetween(w, w4, e),
                      ret |-> w4.ret])
        Drained(w2) == Logged(w2, DrainInAck(MetricCwndSsthresh(w2, e), e))
        Controlled(w1) ==
            LET c1 == w1.conn[e]
            IN  Drained(IF Len(c1.unacked_packets) < Len(old)
                        THEN [w1 EXCEPT !.conn[e] =
                                 SyncAlg(@, IF c1.congestion_state = "fast_recovery"
                                            THEN OnFastRecoveryExit(c1.alg, w.now)
                                            ELSE OnAckReceived(c1.alg, w.now))]
                        ELSE w1)
    IN  Controlled(RemoveAcked([w EXCEPT !.conn[e].unacked_packets = <<>>],
                               e, ack_num, old, 1))

\* handle_ack without the clearing of the duplicate counts on a new ACK
HandleAckKeepsCounts(w, e, ack_num) ==
    LET c == w.conn[e]
        is_duplicate == ack_num = c.last_ack_num /\ c.last_ack_num > 0
        count == IF is_duplicate THEN MapGet(c.duplicate_ack_count, ack_num, 0) + 1 ELSE 0
        w1 == IF is_duplicate
              THEN [w EXCEPT !.conn[e].duplicate_ack_count = MapPut(@, ack_num, count),
                             !.conn[e].stats.duplicate_acks = @ + 1]
              ELSE IF ack_num > c.last_ack_num
              THEN [w EXCEPT !.conn[e].last_ack_num = ack_num]
              ELSE IF c.last_ack_num = 0
              THEN [w EXCEPT !.conn[e].last_ack_num = ack_num]
              ELSE w
        Retransmitted(w2) ==
            Emit(w2, [type |-> "handle_ack", who |-> e, ack_num |-> ack_num,
                      count |-> count, fast_retx |-> TRUE,
                      pre |-> c, mid |-> w2.conn[e], post |-> w2.conn[e],
                      notified |-> Notified(w, w2, e),
                      metrics |-> MetricsBetween(w, w2, e),
                      ret |-> <<>>])
    IN  IF is_duplicate /\ count = 3 /\ c.unacked_packets # <<>>
        THEN Retransmitted(FastRetransmit(w1, e, ack_num))
        ELSE AckTail(w1, e, ack_num, c, count)

\* TCPConnection.handle_ack; the returned packet (or None) is left in ret
HandleAck(w, e, ack_num) ==
    LET c == w.conn[e]
        is_duplicate == ack_num = c.last_ack_num /\ c.last_ack_num > 0
        count == IF is_duplicate THEN MapGet(c.duplicate_ack_count, ack_num, 0) + 1 ELSE 0
        w1 == IF is_duplicate
              THEN [w EXCEPT !.conn[e].duplicate_ack_count = MapPut(@, ack_num, count),
                             !.conn[e].stats.duplicate_acks = @ + 1]
              ELSE IF ack_num > c.last_ack_num
              THEN [w EXCEPT !.conn[e].duplicate_ack_count = EmptyMap,
                             !.conn[e].last_ack_num = ack_num]
              ELSE IF c.last_ack_num = 0
              THEN [w EXCEPT !.conn[e].last_ack_num = ack_num]
              ELSE w
        Retransmitted(w2) ==
            Emit(w2, [type |-> "handle_ack", who |-> e, ack_num |-> ack_num,
                      count |-> count, fast_retx |-> TRUE,
                      pre |-> c, mid |-> w2.conn[e], post |-> w2.conn[e],
                      notified |-> Notified(w, w2, e),
                      metrics |-> MetricsBetween(w, w2, e),
                      ret |-> <<>>])
    IN  IF is_duplicate /\ count = 3 /\ c.unacked_packets # <<>>
        THEN Retransmitted(FastRetransmit(w1, e, ack_num))
        ELSE AckTail(w1, e, ack_num, c, count)

\* ------------------------------------------------------ _process_packet
\* the SYN|ACK reply of LISTEN and of SYN_RECEIVED (a retransmitted SYN)
SynAckReply(w, e, packet) ==
    LET c == w.conn[e]
        client_isn == packet.seq_num
        cookie == GenerateSynCookie(c.cookie_secret, client_isn, packet.source_port,
                                    packet.dest_port, CookieTimeSlot(w.now))
    IN  CreatePacket([w EXCEPT !.conn[e].seq_num = cookie,
                               !.conn[e].ack_num = client_isn + 1,
                               !.conn[e].remote_seq_num = client_isn],
                     e, {"SYN", "ACK"}, <<>>)

SynAckEntry(w, response, cookie, rto) ==
    [packet |-> response, send_time |-> w.now, retransmit_count |-> 0,
     type |-> "syn_ack", cookie |-> cookie, base_rto |-> rto]

InListen(w, e, packet) ==
    IF HasFlag(packet, "SYN")
    THEN LET w1 == SynAckReply(w, e, packet)
             response == w1.ret[1]
             w2 == SetState(w1, e, "SYN_RECEIVED")
         IN  [w2 EXCEPT !.conn[e].handshake_unacked =
                            <<SynAckEntry(w, response, response.seq_num,
                                          w.conn[e].handshake_rto)>>]
    ELSE w

\* a client that keeps its SYN in the handshake table after the SYN|ACK
InSynSentKeepsSyn(w, e, packet) ==
    IF HasFlag(packet, "SYN") /\ HasFlag(packet, "ACK")
    THEN LET w1 == CreatePacket([w EXCEPT !.conn[e].ack_num = packet.seq_num + 1,
                                          !.conn[e].remote_seq_num = packet.seq_num],
                                e, {"ACK"}, <<>>)
         IN  SetState(w1, e, "ESTABLISHED")
    ELSE IF HasFlag(packet, "SYN")
    THEN SetState(CreatePacket(w, e, {"SYN", "ACK"}, <<>>), e, "SYN_RECEIVED")
    ELSE w

InSynSent(w, e, packet) ==
    IF HasFlag(packet, "SYN") /\ HasFlag(packet, "ACK")
    THEN LET w1 == CreatePacket([w EXCEPT !.conn[e].ack_num = packet.seq_num + 1,
                                          !.conn[e].remote_seq_num = packet.seq_num],
                                e, {"ACK"}, <<>>)
         IN  SetState([w1 EXCEPT !.conn[e].handshake_unacked = <<>>], e, "ESTABLISHED")
    ELSE IF HasFlag(packet, "SYN")
    THEN SetState(CreatePacket(w, e, {"SYN", "ACK"}, <<>>), e, "SYN_RECEIVED")
    ELSE w

\* a server that answers an ACK it cannot validate with its SYN|ACK
InSynReceivedAnswersBadAck(w, e, packet) ==
    LET c == w.conn[e]
    IN  IF HasFlag(packet, "ACK")
        THEN IF ValidateSynCookie(c.cookie_secret, packet.ack_num - 1, c.remote_seq_num,
                                  packet.source_port, packet.dest_port, w.now)
             THEN SetState([w EXCEPT !.conn[e].handshake_unacked = <<>>], e, "ESTABLISHED")
             ELSE [w EXCEPT !.ret = <<c.handshake_unacked[1].packet>>]
        ELSE IF HasFlag(packet, "SYN")
        THEN LET w1 == SynAckReply(w, e, packet)
                 response == w1.ret[1]
                 w2 == IF c.handshake_unacked # <<>>
                       THEN [w1 EXCEPT !.conn[e].handshake_unacked[1].packet = response,
                                       !.conn[e].handshake_unacked[1].send_time = w.now,
                                       !.conn[e].handshake_unacked[1].retransmit_count = @ + 1,
                                       !.conn[e].handshake_unacked[1].cookie = response.seq_num]
                       ELSE [w1 EXCEPT !.conn[e].handshake_unacked =
                                           <<SynAckEntry(w, response, response.seq_num,
                                                         c.handshake_rto)>>]
             IN  SendPacket(w2, e, response, TRUE)
        ELSE w

InSynReceived(w, e, packet) ==
    LET c == w.conn[e]
    IN  IF HasFlag(packet, "ACK")
        THEN IF ValidateSynCookie(c.cookie_secret, packet.ack_num - 1, c.remote_seq_num,
                                  packet.source_port, packet.dest_port, w.now)
             THEN SetState([w EXCEPT !.conn[e].handshake_unacked = <<>>], e, "ESTABLISHED")
             ELSE [w EXCEPT !.ret = <<>>]
        ELSE IF HasFlag(packet, "SYN")
        THEN LET w1 == SynAckReply(w, e, packet)
                 response == w1.ret[1]
                 w2 == IF c.handshake_unacked # <<>>
                       THEN [w1 EXCEPT !.conn[e].handshake_unacked[1].packet = response,
                                       !.conn[e].handshake_unacked[1].send_time = w.now,
                                       !.conn[e].handshake_unacked[1].retransmit_count = @ + 1,
                                       !.conn[e].handshake_unacked[1].cookie = response.seq_num]
                       ELSE [w1 EXCEPT !.conn[e].handshake_unacked =
                                           <<SynAckEntry(w, response, response.seq_num,
                                                         c.handshake_rto)>>]
             IN  SendPacket(w2, e, response, TRUE)
        ELSE w

\* a receiver that buffers a payload without moving its ack number
InEstablishedKeepsAckNum(w, e, packet) ==
    LET \* a retransmitted SYN|ACK is answered with an ACK
        w1 == IF HasFlag(packet, "SYN") /\ HasFlag(packet, "ACK")
              THEN CreatePacket([w EXCEPT !.conn[e].ack_num = packet.seq_num + 1,
                                          !.conn[e].remote_seq_num = packet.seq_num],
                                e, {"ACK"}, <<>>)
              ELSE w
        Buffered(w3) == IF w3.ret = <<>> THEN CreatePacket(w3, e, {"ACK"}, <<>>) ELSE w3
        FinOrData(w2) ==
            IF HasFlag(packet, "FIN")
            THEN SetState(CreatePacket([w2 EXCEPT !.conn[e].ack_num = packet.seq_num + 1],
                                       e, {"ACK"}, <<>>),
                          e, "CLOSE_WAIT")
            ELSE IF Len(packet.data) > 0
            THEN Buffered([w2 EXCEPT !.conn[e].receive_buffer = Append(@, packet.data)])
            ELSE w2
        \* every ACK goes through handle_ack; its packet replaces the response
        Acked(wa) == FinOrData(IF wa.ret # <<>> THEN wa ELSE [wa EXCEPT !.ret = w1.ret])
    IN  IF HasFlag(packet, "ACK")
        THEN Acked(HandleAck(w1, e, packet.ack_num))
        ELSE FinOrData(w1)

\* the ESTABLISHED branch of _process_packet
InEstablished(w, e, packet) ==
    LET \* a retransmitted SYN|ACK is answered with an ACK
        w1 == IF HasFlag(packet, "SYN") /\ HasFlag(packet, "ACK")
              THEN CreatePacket([w EXCEPT !.conn[e].ack_num = packet.seq_num + 1,
                                          !.conn[e].remote_seq_num = packet.seq_num],
                                e, {"ACK"}, <<>>)
              ELSE w
        Buffered(w3) == IF w3.ret = <<>> THEN CreatePacket(w3, e, {"ACK"}, <<>>) ELSE w3
        FinOrData(w2) ==
            IF HasFlag(packet, "FIN")
            THEN SetState(CreatePacket([w2 EXCEPT !.conn[e].ack_num = packet.seq_num + 1],
                                       e, {"ACK"}, <<>>),
                          e, "CLOSE_WAIT")
            ELSE IF Len(packet.data) > 0
            THEN Buffered([w2 EXCEPT !.conn[e].receive_buffer = Append(@, packet.data),
                                     !.conn[e].ack_num = packet.seq_num + Len(packet.data)])
            ELSE w2
        \* every ACK goes through handle_ack; its packet replaces the response
        Acked(wa) == FinOrData(IF wa.ret # <<>> THEN wa ELSE [wa EXCEPT !.ret = w1.ret])
    IN  IF HasFlag(packet, "ACK")
        THEN Acked(HandleAck(w1, e, packet.ack_num))
        ELSE FinOrData(w1)

InFinWait1(w, e, packet) ==
    IF HasFlag(packet, "ACK") THEN SetState(w, e, "FIN_WAIT_2")
    ELSE IF HasFlag(packet, "FIN")
    THEN SetState(CreatePacket([w EXCEPT !.conn[e].ack_num = packet.seq_num + 1],
                               e, {"ACK"}, <<>>),
                  e, "CLOSING")
    ELSE w

\* an active closer that acknowledges the FIN of its peer and stays where it is
InFinWait2StaysPut(w, e, packet) ==
    IF HasFlag(packet, "FIN")
    THEN CreatePacket([w EXCEPT !.conn[e].ack_num = packet.seq_num + 1],
                      e, {"ACK"}, <<>>)
    ELSE w

\* the FIN_WAIT_2 branch of _process_packet
InFinWait2(w, e, packet) ==
    IF HasFlag(packet, "FIN")
    THEN SetState(CreatePacket([w EXCEPT !.conn[e].ack_num = packet.seq_num + 1],
                               e, {"ACK"}, <<>>),
                  e, "TIME_WAIT")
    ELSE w

\* TCPConnection._process_packet; the response (or None) is left in ret
ProcessPacket(w0, e, packet) ==
    LET InState(w) ==
            LET state == w.conn[e].state
            IN  CASE state = "LISTEN" -> InListen(w, e, packet)
                  [] state = "SYN_SENT" -> InSynSent(w, e, packet)
                  [] state = "SYN_RECEIVED" -> InSynReceived(w, e, packet)
                  [] state = "ESTABLISHED" -> InEstablished(w, e, packet)
                  [] state = "FIN_WAIT_1" -> InFinWait1(w, e, packet)
                  [] state = "FIN_WAIT_2" -> InFinWait2(w, e, packet)
                  [] state = "CLOSING" ->
                        IF HasFlag(packet, "ACK") THEN SetState(w, e, "TIME_WAIT") ELSE w
                  [] state = "LAST_ACK" ->
                        IF HasFlag(packet, "ACK") THEN SetState(w, e, "CLOSED") ELSE w
                  [] OTHER -> w
    IN  InState([w0 EXCEPT !.ret = <<>>,
                           !.conn[e].remote_seq_num =
                               IF HasFlag(packet, "SYN") \/ Len(packet.data) > 0
                               THEN packet.seq_num ELSE @,
                           !.conn[e].remote_ack_num =
                               IF HasFlag(packet, "ACK") THEN packet.ack_num ELSE @])

\* TCPConnection.receive_packet
ReceivePacket(w, e, packet) ==
    IF packet.dest_port # w.conn[e].local_port THEN [w EXCEPT !.ret = <<>>]
    ELSE LET w1 == [w EXCEPT !.conn[e].stats.packets_received = @ + 1,
                             !.conn[e].stats.bytes_received = @ + GetSize(packet)]
             w2 == Emit(w1, [type |-> "packet_received", who |-> e, packet |-> packet])
         IN  ProcessPacket(w2, e, packet)

\* -------------------------------------------------- connect, close, drain
\* a connect that starts over from any state
ConnectFromAnyState(w, e, isn) ==
    LET c == w.conn[e]
        w1 == IF c.state = "SYN_SENT" THEN SetState(w, e, "CLOSED") ELSE w
        w2 == CreatePacket([w1 EXCEPT !.conn[e].seq_num = isn], e, {"SYN"}, <<>>)
        packet == w2.ret[1]
        w3 == SendPacket(SetState(w2, e, "SYN_SENT"), e, packet, FALSE)
    IN  [w3 EXCEPT !.conn[e].handshake_unacked =
                       <<[packet |-> packet, send_time |-> w.now,
                          retransmit_count |-> 0, type |-> "syn",
                          base_rto |-> c.handshake_rto]>>,
                   !.ret = <<packet>>]

\* TCPConnection.connect with random.randint(1000, 9999) = isn; the
\* exception of the first lines is logged and leaves the world as it is
Connect(w, e, isn) ==
    LET c == w.conn[e]
    IN  IF c.state \notin {"CLOSED", "SYN_SENT"}
        THEN Emit([w EXCEPT !.ret = <<>>],
                  [type |-> "raise", who |-> e, what |-> "Cannot connect"])
        ELSE LET w1 == IF c.state = "SYN_SENT" THEN SetState(w, e, "CLOSED") ELSE w
                 w2 == CreatePacket([w1 EXCEPT !.conn[e].seq_num = isn], e, {"SYN"}, <<>>)
                 packet == w2.ret[1]
                 w3 == SendPacket(SetState(w2, e, "SYN_SENT"), e, packet, FALSE)
             IN  [w3 EXCEPT !.conn[e].handshake_unacked =
                                <<[packet |-> packet, send_time |-> w.now,
                                   retransmit_count |-> 0, type |-> "syn",
                                   base_rto |-> c.handshake_rto]>>,
                            !.ret = <<packet>>]

\* TCPConnection.close
Close(w, e) ==
    LET c == w.conn[e]
    IN  IF c.state = "ESTABLISHED" \/ c.state = "CLOSE_WAIT"
        THEN LET w1 == CreatePacket(w, e, {"FIN", "ACK"}, <<>>)
                 packet == w1.ret[1]
                 w2 == SetState(w1, e, IF c.state = "ESTABLISHED" THEN "FIN_WAIT_1"
                                       ELSE "LAST_ACK")
             IN  [SendPacket(w2, e, packet, FALSE) EXCEPT !.ret = <<packet>>]
        ELSE [w EXCEPT !.ret = <<>>]

\* the while loop of drain_send_buffer
RECURSIVE DrainLoop(_, _, _)
DrainLoop(w, e, available_window) ==
    LET c == w.conn[e]
    IN  IF c.send_buffer # <<>> /\ available_window > 0
        THEN LET data == Head(c.send_buffer)
                 packet == PacketOf(c, {"PSH", "ACK"}, data)
                 w1 == CreatePacket([w EXCEPT !.conn[e].send_buffer = Tail(@)],
                                    e, {"PSH", "ACK"}, data)
                 w2 == [w1 EXCEPT !.conn[e].unacked_packets =
                                      Append(@, [packet |-> packet,
                                                 send_time |-> w.now,
                                                 retransmit_count |-> 0,
                                                 base_rto |-> c.rto,
                                                 first_send_time |-> w.now]),
                                  !.conn[e].last_paced_send_time = w.now,
                                  !.out = Append(@, packet)]
                 w3 == Emit(w2, [type |-> "first_send", who |-> e,
                                 via |-> "drain_send_buffer", packet |-> packet,
                                 count |-> Len(w2.conn[e].unacked_packets),
                                 cwnd |-> c.congestion_window])
             IN  DrainLoop(w3, e, available_window - 1)
        ELSE w

\* a drain that sends one segment more than the window has room for
DrainSendBufferOverfull(w, e) ==
    LET c == w.conn[e]
        available_window == c.congestion_window \div MSS - Len(c.unacked_packets) + 1
        Logged(w2) == Emit(w2, [type |-> "drain_send_buffer", who |-> e,
                                pre |-> c, post |-> w2.conn[e], out |-> w2.out])
        Sent(w1) == Logged(IF w1.out # <<>> THEN MetricCwndSsthresh(w1, e) ELSE w1)
    IN  IF available_window <= 0 THEN [w EXCEPT !.out = <<>>]
        ELSE IF w.now - c.last_paced_send_time < MinPacingInterval
        THEN [w EXCEPT !.out = <<>>]
        ELSE Sent(DrainLoop([w EXCEPT !.out = <<>>], e, available_window))

\* TCPConnection.drain_send_buffer; the list to_send is left in out
DrainSendBuffer(w, e) ==
    LET c == w.conn[e]
        available_window == c.congestion_window \div MSS - Len(c.unacked_packets)
        Logged(w2) == Emit(w2, [type |-> "drain_send_buffer", who |-> e,
                                pre |-> c, post |-> w2.conn[e], out |-> w2.out])
        Sent(w1) == Logged(IF w1.out # <<>> THEN MetricCwndSsthresh(w1, e) ELSE w1)
    IN  IF available_window <= 0 THEN [w EXCEPT !.out = <<>>]
        ELSE IF w.now - c.last_paced_send_time < MinPacingInterval
        THEN [w EXCEPT !.out = <<>>]
        ELSE Sent(DrainLoop([w EXCEPT !.out = <<>>], e, available_window))

\* --------------------------------------------------------- check_timeouts
\* a timeout that does not back off: min(60.0, base_rto)
BackoffTimeoutFixed(base_rto, retransmit_count) == Min(60 * Second, base_rto)

\* min(60.0, base_rto * 2 ** retransmit_count); base_rto is at least one
\* second, so from 2 ** 6 on the product is above 60 (the guards keep the
\* product inside the checker's integers)
BackoffTimeout(base_rto, retransmit_count) ==
    IF base_rto >= 60 * Second \/ retransmit_count >= 6 THEN 60 * Second
    ELSE Min(60 * Second, base_rto * (2 ^ retransmit_count))

RECURSIVE HandshakeTimeouts(_, _, _)
\* a handshake timeout that is reported to the congestion controller as well
HandshakeTimeoutsAsLoss(w, e, i) ==
    IF i > Len(w.conn[e].handshake_unacked) THEN w
    ELSE LET unacked == w.conn[e].handshake_unacked[i]
             timeout == BackoffTimeout(unacked.base_rto, unacked.retransmit_count)
         IN  IF w.now - unacked.send_time > timeout
             THEN LET w1 == [w EXCEPT
                                 !.conn[e].handshake_unacked[i].retransmit_count = @ + 1,
                                 !.conn[e].handshake_unacked[i].send_time = w.now,
                                 !.out = Append(@, unacked.packet)]
                      w2 == [w1 EXCEPT !.conn[e] =
                                SyncAlg(@, OnPacketLoss(w.conn[e].alg, "timeout", w.now))]
                      w3 == SendPacket(w2, e, unacked.packet, TRUE)
                      w4 == Emit(w3, [type |-> "timeout", who |-> e, table |-> "handshake",
                                      index |-> i, packet |-> unacked.packet])
                      w5 == Metric(w4, e, "rto_event", unacked.packet.seq_num)
                  IN  HandshakeTimeouts(w5, e, i + 1)
             ELSE HandshakeTimeouts(w, e, i + 1)

\* the loop over handshake_unacked
HandshakeTimeouts(w, e, i) ==
    IF i > Len(w.conn[e].handshake_unacked) THEN w
    ELSE LET unacked == w.conn[e].handshake_unacked[i]
             timeout == BackoffTimeout(unacked.base_rto, unacked.retransmit_count)
         IN  IF w.now - unacked.send_time > timeout
             THEN LET w1 == [w EXCEPT
                                 !.conn[e].handshake_unacked[i].retransmit_count = @ + 1,
                                 !.conn[e].handshake_unacked[i].send_time = w.now,
                                 !.out = Append(@, unacked.packet)]
                      w2 == SendPacket(w1, e, unacked.packet, TRUE)
                      w3 == Emit(w2, [type |-> "timeout", who |-> e, table |-> "handshake",
                                      index |-> i, packet |-> unacked.packet])
                      w4 == Metric(w3, e, "rto_event", unacked.packet.seq_num)
                  IN  HandshakeTimeouts(w4, e, i + 1)
             ELSE HandshakeTimeouts(w, e, i + 1)

RECURSIVE DataTimeouts(_, _, _)
\* a timeout retransmission that leaves first_send_time alone
DataTimeoutsKeepsFirstSend(w, e, i) ==
    IF i > Len(w.conn[e].unacked_packets) THEN w
    ELSE LET c == w.conn[e]
             unacked == c.unacked_packets[i]
             timeout == BackoffTimeout(unacked.base_rto, unacked.retransmit_count)
             elapsed == w.now - unacked.send_time
         IN  IF elapsed > timeout
             THEN LET w1 == [w EXCEPT
                                 !.conn[e].unacked_packets[i].retransmit_count = @ + 1,
                                 !.conn[e].unacked_packets[i].send_time = w.now]
                      w2 == [w1 EXCEPT !.conn[e] =
                                SyncAlg(@, OnPacketLoss(c.alg, "timeout", w.now))]
                      w3 == SendPacket(MetricCwndSsthresh(w2, e), e, unacked.packet, TRUE)
                      w4 == [w3 EXCEPT !.out = Append(@, unacked.packet)]
                      w5 == Emit(w4, [type |-> "timeout", who |-> e, table |-> "data",
                                      index |-> i, packet |-> unacked.packet])
                      w6 == Metric(w5, e, "rto_event", unacked.packet.seq_num)
                  IN  DataTimeouts(w6, e, i + 1)
             ELSE DataTimeouts(w, e, i + 1)

\* the loop over unacked_packets
DataTimeouts(w, e, i) ==
    IF i > Len(w.conn[e].unacked_packets) THEN w
    ELSE LET c == w.conn[e]
             unacked == c.unacked_packets[i]
             timeout == BackoffTimeout(unacked.base_rto, unacked.retransmit_count)
             elapsed == w.now - unacked.send_time
         IN  IF elapsed > timeout
             THEN LET w1 == [w EXCEPT
                                 !.conn[e].unacked_packets[i].retransmit_count = @ + 1,
                                 !.conn[e].unacked_packets[i].send_time = w.now]
                      w2 == [w1 EXCEPT !.conn[e] =
                                SyncAlg(@, OnPacketLoss(c.alg, "timeout", w.now))]
                      w3 == SendPacket(MetricCwndSsthresh(w2, e), e, unacked.packet, TRUE)
                      w4 == [w3 EXCEPT !.out = Append(@, unacked.packet),
                                       !.conn[e].unacked_packets[i].first_send_time = w.now]
                      w5 == Emit(w4, [type |-> "timeout", who |-> e, table |-> "data",
                                      index |-> i, packet |-> unacked.packet])
                      w6 == Metric(w5, e, "rto_event", unacked.packet.seq_num)
                  IN  DataTimeouts(w6, e, i + 1)
             ELSE DataTimeouts(w, e, i + 1)

\* the entries found timed out between two points of an action's log
TimedOut(before, after, e) ==
    SelectSeq(SubSeq(after.events, Len(before.events) + 1, Len(after.events)),
              LAMBDA ev : ev.type = "timeout" /\ ev.who = e)

\* TCPConnection.check_timeouts; the packets of retransmit_packets are left
\* in out (every item names the peer as its destination)
CheckTimeouts(w, e) ==
    LET Logged(w1) == Emit(w1, [type |-> "check_timeouts", who |-> e,
                                pre |-> w.conn[e], post |-> w1.conn[e], out |-> w1.out,
                                timed_out |-> TimedOut(w, w1, e)])
    IN  Logged(DataTimeouts(HandshakeTimeouts([w EXCEPT !.out = <<>>], e, 1), e, 1))

\* --------------------------------------------------------------- driver
\* transmit every packet of a list to dest
RECURSIVE TransmitAll(_, _, _, _)
TransmitAll(w, packets, dest, i) ==
    IF i > Len(packets) THEN w
    ELSE TransmitAll(TransmitPacket(w, packets[i], dest), packets, dest, i + 1)

\* the loop of NetworkSimulator.process_queue over ready_packets
RECURSIVE DeliverAll(_, _, _)
DeliverAll(w, ready, i) ==
    IF i > Len(ready) THEN w
    ELSE LET item == ready[i]
             Responded(w2) == IF w2.ret # <<>>
                              THEN TransmitPacket(w2, w2.ret[1], Peer(item.dest))
                              ELSE w2
             Received(w1) == Responded(ReceivePacket(w1, item.dest, item.packet))
         IN  DeliverAll(Received(Emit(w, [type |-> "link", status |-> "ARRIVED",
                                          packet |-> item.packet, dest |-> item.dest,
                                          arrival_time |-> item.arrival_time])),
                        ready, i + 1)

IsReady(w, item) == w.now >= item.arrival_time

\* a process_queue that leaves the delivered items in the queue
ProcessQueueKeepsReady(w) ==
    LET ready_packets == SelectSeq(w.queue, LAMBDA item : IsReady(w, item))
    IN  DeliverAll(w, ready_packets, 1)

\* NetworkSimulator.process_queue
ProcessQueue(w) ==
    LET ready_packets == SelectSeq(w.queue, LAMBDA item : IsReady(w, item))
        remaining_packets == SelectSeq(w.queue, LAMBDA item : ~IsReady(w, item))
    IN  DeliverAll([w EXCEPT !.queue = remaining_packets], ready_packets, 1)

\* the part of TCPSimulator.update for one connection
UpdateConnection(w, e) ==
    LET \* every packet a call has left in out goes to the peer
        Transmitted(w1) == TransmitAll(w1, w1.out, Peer(e), 1)
    IN  Transmitted(DrainSendBuffer(Transmitted(CheckTimeouts(w, e)), e))

\* TCPSimulator.update
SimUpdate(w) == UpdateConnection(UpdateConnection(ProcessQueue(w), "client"), "server")

\* TCPSimulator.start_connection
StartConnection(w, isn) ==
    LET Sent(w1) == IF w1.ret # <<>> THEN TransmitPacket(w1, w1.ret[1], "server") ELSE w1
    IN  Sent(Connect(w, "client", isn))

\* TCPSimulator.send_data
SimSendData(w, e, data) ==
    LET Sent(w1) == IF w1.ret # <<>> THEN TransmitPacket(w1, w1.ret[1], Peer(e)) ELSE w1
    IN  Sent(SendData(w, e, data))

\* the loop of TCPGUI._send_data over range(packet_count)
RECURSIVE GuiSendLoop(_, _, _)
GuiSendLoop(w, data, n) ==
    IF n = 0 THEN w
    ELSE LET c == w.conn["client"]
         IN  IF Len(c.unacked_packets) < c.congestion_window \div MSS
             THEN GuiSendLoop(SimSendData(w, "client", data), data, n - 1)
             ELSE GuiSendLoop([w EXCEPT !.conn["client"].send_buffer = Append(@, data)],
                              data, n - 1)

\* TCPGUI._send_data with a non-empty text and packet_count >= 1
GuiSendData(w, data, packet_count) ==
    IF w.conn["client"].state = "ESTABLISHED"
    THEN GuiSendLoop(w, data, packet_count)
    ELSE SimSendData(w, "client", data)

\* TCPSimulator.close_connection
CloseConnection(w, e) ==
    LET Sent(w1) == IF w1.ret # <<>> THEN TransmitPacket(w1, w1.ret[1], Peer(e)) ELSE w1
    IN  Sent(Close(w, e))

\* ---------------------------------------------------------------- state
VARIABLES
    conn,      \* the two TCPConnection objects, by endpoint
    queue,     \* NetworkSimulator.packet_queue
    now,       \* time.time()
    events,    \* the observer calls and the log of the last action
    wire,      \* every segment handed to transmit_packet so far, with its fate
    lost,      \* the number of segments the link has lost
    count,     \* how many advances, sends and connects the behaviour has made
    cfg        \* the scenario: algorithm, link parameters, what the user does

vars == <<conn, queue, now, events, wire, lost, count, cfg>>

\* the clock when the objects are constructed
StartTime == Second

\* the period of the driver loop (time.sleep(0.1) in the GUI's update thread)
DriverPeriod == Second \div 10

\* the values random.randint(1000, 9999) is drawn from
Isns == {1000, 9999}

\* at most this many calls of transmit_packet in one action can lose their
\* segment
MaxTxPerStep == 4

\* the objects built by TCPSimulator.__init__ and create_connection
InitWorld(c) ==
    /\ cfg = c
    /\ conn = [e \in Endpoints |->
                  IF e = "client"
                  THEN InitConn(ClientPort, ServerPort, FALSE, c.alg, 1000, 12345, TRUE)
                  ELSE InitConn(ServerPort, ClientPort, TRUE, c.alg, 1000, 12345, FALSE)]
    /\ queue = <<>>
    /\ now = StartTime
    /\ events = <<>>
    /\ wire = <<>>
    /\ lost = 0
    /\ count = [advances |-> 0, stalls |-> 0, connects |-> 0,
                sends |-> [e \in Endpoints |-> 0],
                bursts |-> 0, payloads |-> 0, calls |-> 0]

\* the world an action starts from; drops names the lost transmissions
World(time, drops) ==
    [conn |-> conn, queue |-> queue, now |-> time, events |-> <<>>, wire |-> wire,
     lost |-> lost, delay |-> cfg.delay, bandwidth |-> cfg.bandwidth,
     drops |-> drops, droppable |-> cfg.droppable, refused |-> FALSE,
     nTx |-> 0, ret |-> <<>>, out |-> <<>>]

DropChoices ==
    IF lost < cfg.maxLoss
    THEN {d \in SUBSET (1..MaxTxPerStep) : Cardinality(d) <= cfg.maxLoss - lost}
    ELSE {{}}

Commit(w) ==
    /\ w.drops \subseteq 1..w.nTx
    /\ ~w.refused
    /\ conn' = w.conn
    /\ queue' = w.queue
    /\ events' = w.events
    /\ wire' = w.wire
    /\ lost' = w.lost

\* the user presses the GUI's connect button, which refuses unless the client
\* is CLOSED
DoConnect ==
    /\ conn["client"].state = "CLOSED"
    /\ \E isn \in cfg.isns, drops \in DropChoices :
           Commit(StartConnection(World(now, drops), isn))
    /\ count' = [count EXCEPT !.connects = @ + 1]
    /\ UNCHANGED <<now, cfg>>

\* a caller of TCPSimulator.send_data sends a payload of len bytes
DoSend(e) ==
    /\ count.sends[e] < cfg.maxSends[e]
    /\ conn[e].state = "ESTABLISHED"
    /\ \E len \in cfg.lens, drops \in DropChoices :
           Commit(SimSendData(World(now, drops), e,
                              [i \in 1..len |-> count.sends["client"] + count.sends["server"] + 1]))
    /\ count' = [count EXCEPT !.sends[e] = @ + 1]
    /\ UNCHANGED <<now, cfg>>

\* the text the user sends from the GUI: one byte
GuiText == <<120>>

\* the user presses the GUI's send button with packet_count = n, once the
\* client is connected and its earlier payloads are acknowledged
DoGuiSend ==
    /\ count.bursts < cfg.maxBursts
    /\ conn["client"].state = "ESTABLISHED"
    /\ conn["client"].unacked_packets = <<>>
    /\ conn["client"].send_buffer = <<>>
    /\ \E n \in cfg.packetCounts, drops \in DropChoices :
           /\ Commit(GuiSendData(World(now, drops), GuiText, n))
           /\ count' = [count EXCEPT !.bursts = @ + 1, !.payloads = @ + n]
    /\ UNCHANGED <<now, cfg>>

\* a caller of TCPSimulator.close_connection closes one side: the scenario
\* names the sides that close an ESTABLISHED connection of their own accord,
\* and either side may close once the FIN of its peer has put it in CLOSE_WAIT
DoClose(e) ==
    /\ \/ conn[e].state = "ESTABLISHED" /\ e \in cfg.closers
       \/ conn[e].state = "CLOSE_WAIT"
    /\ \E drops \in DropChoices : Commit(CloseConnection(World(now, drops), e))
    /\ count' = [count EXCEPT !.calls = @ + 1]
    /\ UNCHANGED <<now, cfg>>

\* the driver loop may run while the behaviour has advances left; before the
\* user connects it runs at most cfg.maxIdle times
MayAdvance ==
    /\ count.advances < cfg.maxAdvances
    /\ count.connects = 0 => count.advances < cfg.maxIdle

\* the driver loop: one period later, TCPSimulator.update runs
Tick ==
    /\ MayAdvance
    /\ \E drops \in DropChoices :
           /\ now' = now + cfg.period
           /\ Commit(SimUpdate(World(now + cfg.period, drops)))
    /\ count' = [count EXCEPT !.advances = @ + 1]
    /\ UNCHANGED cfg

\* the driver loop after a stall: TCPSimulator.update runs cfg.stall later
LateTick ==
    /\ MayAdvance
    /\ count.stalls < cfg.maxStalls
    /\ \E drops \in DropChoices :
           /\ now' = now + cfg.stall
           /\ Commit(SimUpdate(World(now + cfg.stall, drops)))
    /\ count' = [count EXCEPT !.advances = @ + 1, !.stalls = @ + 1]
    /\ UNCHANGED cfg

\* which segments a scenario lets the link lose
NoLoss == [p \in {ClientPort, ServerPort} |-> [d \in BOOLEAN |-> FALSE]]
ClientDataLoss == [p \in {ClientPort, ServerPort} |-> [d \in BOOLEAN |-> p = ClientPort /\ d]]

\* what every scenario shares: the link's bandwidth, the driver, the user
Scenario(alg) ==
    [alg |-> alg, delay |-> DriverPeriod \div 2, bandwidth |-> 1000,
     droppable |-> NoLoss, maxLoss |-> 0,
     period |-> DriverPeriod, stall |-> 31 * DriverPeriod, maxStalls |-> 0,
     maxSends |-> [client |-> 0, server |-> 0],
     maxBursts |-> 0, packetCounts |-> {},
     maxAdvances |-> MaxAdvances, maxIdle |-> MaxAdvances,
     closers |-> {},
     lens |-> {1}, isns |-> {1000}]

\* -------------------------------------- the simulator with a lossy link
\* the values of packet_count the user picks on the lossy link
SmallPacketCounts == {1, 2}

\* the client sends bursts from the GUI and the server single payloads
\* through TCPSimulator.send_data, while the link may lose a data segment of
\* the client
Scenarios ==
    { [Scenario(a) EXCEPT !.droppable = ClientDataLoss, !.maxLoss = MaxLoss,
                          !.maxBursts = MaxBursts,
                          !.packetCounts = SmallPacketCounts,
                          !.maxIdle = MaxIdleAdvances,
                          !.maxSends = [client |-> 0, server |-> MaxServerSends]] :
      a \in AlgNames }

Init == \E c \in Scenarios : InitWorld(c)

Next ==
    \/ DoConnect
    \/ DoGuiSend
    \/ DoSend("server")
    \/ Tick

Spec == Init /\ [][Next]_vars

\* ------------------------------------------------- the handshake alone
\* the one-way delays of the handshake scenarios, in driver periods
HandshakeDelays == {1, 13, 16}

HandshakeScenarios ==
    { [Scenario(a) EXCEPT !.delay = d * DriverPeriod,
                          !.maxAdvances = MaxHandshakeAdvances,
                          !.maxIdle = MaxIdleAdvances,
                          !.isns = Isns] :
      a \in AlgNames, d \in HandshakeDelays }

InitHandshake == \E c \in HandshakeScenarios : InitWorld(c)

NextHandshake ==
    \/ DoConnect
    \/ Tick

\* the step counters of a run of the driver loop and of a press of connect
Advance == MayAdvance /\ count' = [count EXCEPT !.advances = @ + 1]
Connecting ==
    conn["client"].state = "CLOSED" /\ count' = [count EXCEPT !.connects = @ + 1]

\* the GUI's update thread runs TCPSimulator.update every period for as long
\* as the program runs, and the user does press connect
SpecHandshake ==
    InitHandshake /\ [][NextHandshake]_vars
        /\ WF_count(Advance) /\ WF_count(Connecting)

\* ------------------------------------------- bursts sent from the GUI
\* the values of packet_count the user picks
PacketCounts == {1, 2, 10}

BurstScenarios ==
    { [Scenario(a) EXCEPT !.delay = Second \div 100,
                          !.maxStalls = MaxStalls,
                          !.maxBursts = MaxBursts, !.packetCounts = PacketCounts,
                          !.maxAdvances = MaxBurstAdvances,
                          !.maxIdle = MaxIdleAdvances] :
      a \in AlgNames }

InitBurst == \E c \in BurstScenarios : InitWorld(c)

NextBurst ==
    \/ DoConnect
    \/ DoGuiSend
    \/ Tick
    \/ LateTick

SpecBurst == InitBurst /\ [][NextBurst]_vars

\* ------------------------------- the congestion controller on its own
\* one call of the client's controller, made the way the connection makes it
Call(op, a) ==
    /\ count.calls < MaxCalls
    /\ conn' = [conn EXCEPT !["client"] = SyncAlg(@, a)]
    /\ events' = <<[type |-> "call", op |-> op,
                    pre |-> conn["client"].alg, post |-> a]>>
    /\ now' = now + cfg.period
    /\ count' = [count EXCEPT !.calls = @ + 1]
    /\ UNCHANGED <<queue, wire, lost, cfg>>

\* handle_ack after an ACK that removed an entry
CallAck ==
    LET a == conn["client"].alg
    IN  IF a.congestion_state = "fast_recovery"
        THEN Call("on_fast_recovery_exit", OnFastRecoveryExit(a, now + cfg.period))
        ELSE Call("on_ack_received", OnAckReceived(a, now + cfg.period))

\* check_timeouts on an entry that timed out
CallTimeout ==
    Call("timeout", OnPacketLoss(conn["client"].alg, "timeout", now + cfg.period))

\* handle_ack on the third duplicate ACK
CallFastRetransmit ==
    Call("fast_retransmit",
         OnPacketLoss(conn["client"].alg, "fast_retransmit", now + cfg.period))

InitCC == \E a \in AlgNames : InitWorld(Scenario(a))

NextCC ==
    \/ CallAck
    \/ CallTimeout
    \/ CallFastRetransmit

SpecCC == InitCC /\ [][NextCC]_vars

\* ------------------------------- payloads that can be told apart
\* number of payloads the client sends through TCPSimulator.send_data, and
\* number of runs of the driver loop
MaxClientSends == 3
MaxDataAdvances == 9

\* the client sends single payloads, each with a byte of its own, while the
\* link may lose one of its data segments and the driver may stall twice
DataScenarios ==
    { [Scenario(a) EXCEPT !.droppable = ClientDataLoss, !.maxLoss = MaxLoss,
                          !.maxStalls = MaxStalls,
                          !.maxSends = [client |-> MaxClientSends, server |-> 0],
                          !.maxAdvances = MaxDataAdvances,
                          !.maxIdle = MaxIdleAdvances] :
      a \in AlgNames }

InitData == \E c \in DataScenarios : InitWorld(c)

NextData ==
    \/ DoConnect
    \/ DoSend("client")
    \/ Tick
    \/ LateTick

SpecData == InitData /\ [][NextData]_vars

\* --------------------------------- the connection called on its own
\* number of calls of connect, receive_packet and close a caller makes on the
\* two connections, and number of times the clock jumps between them
MaxConnCalls == 5
MaxClockJumps == 3

\* the jumps of time.time() between two calls: a little less and a little
\* more than one cookie time step
ClockJumps == {62 * Second, 66 * Second}

\* the segments a caller builds itself: a bare ACK, a FIN and a data segment,
\* none of them answering anything the connection has sent
CraftedFlags == {{"ACK"}, {"FIN", "ACK"}, {"PSH", "ACK"}}

Crafted(e) ==
    { [source_port |-> conn[e].remote_port,
       dest_port |-> conn[e].local_port,
       seq_num |-> 77,
       ack_num |-> 1,
       flags |-> f,
       data |-> IF "PSH" \in f THEN <<7>> ELSE <<>>] : f \in CraftedFlags }

\* the segments the peer's calls have returned so far, addressed to e
Returned(e) ==
    { wire[i].packet : i \in {k \in 1..Len(wire) :
                                 wire[k].packet.dest_port = conn[e].local_port} }

\* a call returns: the caller keeps the returned segment, and the log ends
\* with the call, its argument and what it returned
Returns(w, e, op, arg) ==
    /\ count.calls < MaxConnCalls
    /\ conn' = w.conn
    /\ queue' = w.queue
    /\ lost' = w.lost
    /\ events' = Append(w.events, [type |-> "returned", op |-> op, who |-> e,
                                   arg |-> arg, ret |-> w.ret])
    /\ wire' = IF w.ret # <<>>
               THEN Append(w.wire, [packet |-> w.ret[1], status |-> "RETURNED"])
               ELSE w.wire
    /\ count' = [count EXCEPT !.calls = @ + 1]
    /\ UNCHANGED <<now, cfg>>

\* connection.connect()
ConnConnect(e) ==
    \E isn \in cfg.isns : Returns(Connect(World(now, {}), e, isn), e, "connect", <<>>)

\* connection.receive_packet(packet)
ConnReceive(e) ==
    \E packet \in Crafted(e) \cup Returned(e) :
        Returns(ReceivePacket(World(now, {}), e, packet), e, "receive_packet", <<packet>>)

\* connection.close()
ConnClose(e) == Returns(Close(World(now, {}), e), e, "close", <<>>)

\* time passes between two calls
ClockJump ==
    /\ count.advances < MaxClockJumps
    /\ \E d \in ClockJumps : now' = now + d
    /\ events' = <<>>
    /\ count' = [count EXCEPT !.advances = @ + 1]
    /\ UNCHANGED <<conn, queue, wire, lost, cfg>>

InitConnection == InitWorld(Scenario("Reno"))

NextConnection ==
    \/ \E e \in Endpoints : ConnConnect(e)
    \/ \E e \in Endpoints : ConnReceive(e)
    \/ \E e \in Endpoints : ConnClose(e)
    \/ ClockJump

SpecConnection == InitConnection /\ [][NextConnection]_vars

\* ------------------------------------ the handshake on a lossy link
\* number of runs of the driver loop: a lost SYN or ACK is made good by a
\* retransmission 3 s (30 periods) later
MaxOpenAdvances == 45

\* the link may lose one of the client's segments without data (its SYN or
\* an ACK)
ClientControlLoss ==
    [p \in {ClientPort, ServerPort} |-> [d \in BOOLEAN |-> p = ClientPort /\ ~d]]

\* the client connects and, once it is ESTABLISHED, may send one payload
OpenScenarios ==
    { [Scenario(a) EXCEPT !.droppable = ClientControlLoss, !.maxLoss = MaxLoss,
                          !.maxSends = [client |-> 1, server |-> 0],
                          !.maxAdvances = MaxOpenAdvances,
                          !.maxIdle = MaxIdleAdvances] :
      a \in AlgNames }

InitOpen == \E c \in OpenScenarios : InitWorld(c)

NextOpen ==
    \/ DoConnect
    \/ DoSend("client")
    \/ Tick

\* the driver loop keeps running and the user does press connect
SpecOpen ==
    InitOpen /\ [][NextOpen]_vars /\ WF_count(Advance) /\ WF_count(Connecting)

\* ------------------------------------------------------- the teardown
\* number of runs of the driver loop
MaxCloseAdvances == 12

\* no loss; the client may send one payload; one side or both close of their
\* own accord
CloseScenarios ==
    { [Scenario(a) EXCEPT !.closers = who,
                          !.maxSends = [client |-> 1, server |-> 0],
                          !.maxAdvances = MaxCloseAdvances,
                          !.maxIdle = MaxIdleAdvances] :
      a \in AlgNames, who \in {{"client"}, {"server"}, {"client", "server"}} }

InitClose == \E c \in CloseScenarios : InitWorld(c)

NextClose ==
    \/ DoConnect
    \/ DoSend("client")
    \/ \E e \in Endpoints : DoClose(e)
    \/ Tick

\* the driver loop keeps running and the user does press connect
SpecClose ==
    InitClose /\ [][NextClose]_vars /\ WF_count(Advance) /\ WF_count(Connecting)

\* ------------------------------------- closing with data still buffered
\* number of runs of the driver loop
MaxShutdownAdvances == 5

\* no loss; the client sends payloads, some of which wait in its send buffer,
\* and closes; the driver may stall
ShutdownScenarios ==
    { [Scenario(a) EXCEPT !.closers = {"client"},
                          !.maxSends = [client |-> MaxClientSends, server |-> 0],
                          !.maxStalls = MaxStalls,
                          !.maxAdvances = MaxShutdownAdvances,
                          !.maxIdle = MaxIdleAdvances] :
      a \in AlgNames }

InitShutdown == \E c \in ShutdownScenarios : InitWorld(c)

NextShutdown ==
    \/ DoConnect
    \/ DoSend("client")
    \/ \E e \in Endpoints : DoClose(e)
    \/ Tick
    \/ LateTick

SpecShutdown == InitShutdown /\ [][NextShutdown]_vars

\* ------------------------- data sent through the connection's own calls
\* number of calls of connect, receive_packet, send_data and drain_send_buffer
\* a caller makes on the two connections
MaxTransferCalls == 11

\* the segment the peer's calls have returned last, addressed to e: the caller
\* hands it to e once, more than once, or never
LastReturned(e) ==
    LET mine == {k \in 1..Len(wire) : wire[k].packet.dest_port = conn[e].local_port}
    IN  { wire[k].packet : k \in {i \in mine : \A j \in mine : j <= i} }

\* a call with the arguments arg returns the list packets, and the caller
\* keeps every segment of it
TransferReturns(w, e, op, arg, packets) ==
    /\ count.calls < MaxTransferCalls
    /\ conn' = w.conn
    /\ queue' = w.queue
    /\ lost' = w.lost
    /\ events' = Append(w.events, [type |-> "returned", op |-> op, who |-> e,
                                   arg |-> arg, ret |-> packets])
    /\ wire' = w.wire \o [k \in 1..Len(packets) |->
                              [packet |-> packets[k], status |-> "RETURNED"]]
    /\ UNCHANGED <<now, cfg>>

\* client.connect()
TransferConnect ==
    /\ conn["client"].state = "CLOSED"
    /\ \E isn \in cfg.isns :
           LET Called(w) == TransferReturns(w, "client", "connect", <<>>, w.ret)
           IN  Called(Connect(World(now, {}), "client", isn))
    /\ count' = [count EXCEPT !.calls = @ + 1, !.connects = @ + 1]

\* connection.receive_packet(packet)
TransferReceive(e) ==
    /\ \E packet \in LastReturned(e) :
           LET Called(w) == TransferReturns(w, e, "receive_packet", <<packet>>, w.ret)
           IN  Called(ReceivePacket(World(now, {}), e, packet))
    /\ count' = [count EXCEPT !.calls = @ + 1]

\* connection.send_data(data), every payload of a connection with a byte of
\* its own
TransferSend(e) ==
    /\ count.sends[e] < cfg.maxSends[e]
    /\ conn[e].state = "ESTABLISHED"
    /\ LET data == <<count.sends[e] + 1>>
           Called(w) == TransferReturns(w, e, "send_data", <<data>>, w.ret)
       IN  Called(SendData(World(now, {}), e, data))
    /\ count' = [count EXCEPT !.calls = @ + 1, !.sends[e] = @ + 1]

\* client.drain_send_buffer()
TransferDrain ==
    /\ conn["client"].state = "ESTABLISHED"
    /\ LET Called(w) == TransferReturns(w, "client", "drain_send_buffer", <<>>, w.out)
       IN  Called(DrainSendBuffer(World(now, {}), "client"))
    /\ count' = [count EXCEPT !.calls = @ + 1]

TransferScenarios ==
    { [Scenario(a) EXCEPT !.maxSends = [client |-> MaxClientSends, server |-> 1]] :
      a \in AlgNames }

InitTransfer == \E c \in TransferScenarios : InitWorld(c)

NextTransfer ==
    \/ TransferConnect
    \/ \E e \in Endpoints : TransferReceive(e)
    \/ \E e \in Endpoints : TransferSend(e)
    \/ TransferDrain

SpecTransfer == InitTransfer /\ [][NextTransfer]_vars

\* ------------------------------------ the RTT estimator on its own
\* number of samples fed to the estimator in one behaviour
MaxSamples == 4

\* the values of time.time() - first_send_time that handle_ack feeds to the
\* estimator: 50 ms, 200 ms, 1 s and 30 s
RttSamples == {Second \div 20, Second \div 5, Second, 30 * Second}

\* handle_ack removes an acknowledged entry of the client and calls
\* _update_rto with its sample
Sample ==
    /\ count.calls < MaxSamples
    /\ \E sample_rtt \in RttSamples :
           /\ conn' = [conn EXCEPT !["client"] = UpdateRto(@, sample_rtt)]
           /\ events' = <<[type |-> "rtt_sample", who |-> "client",
                           sample |-> sample_rtt,
                           before |-> conn["client"],
                           after |-> UpdateRto(conn["client"], sample_rtt)]>>
    /\ now' = now + cfg.period
    /\ count' = [count EXCEPT !.calls = @ + 1]
    /\ UNCHANGED <<queue, wire, lost, cfg>>

InitRto == \E a \in AlgNames : InitWorld(Scenario(a))

NextRto == Sample

SpecRto == InitRto /\ [][NextRto]_vars

\* ------------------------------------------------------------ properties
\* the calls of handle_ack made by the last action
HandleAckEvents == {i \in 1..Len(events) : events[i].type = "handle_ack"}

\* the entries removed from the table after an RTT sample, in the last action
RttSampleEvents == {i \in 1..Len(events) : events[i].type = "rtt_sample"}

\* end_seq of an entry as the specification words it
EndSeqOf(p) ==
    p.packet.seq_num + Len(p.packet.data)
        + (IF "SYN" \in p.packet.flags \/ "FIN" \in p.packet.flags THEN 1 ELSE 0)

\* the position of the entry with the smallest sequence number
SmallestSeq(table) ==
    CHOOSE i \in 1..Len(table) :
        \A j \in 1..Len(table) : table[i].packet.seq_num <= table[j].packet.seq_num

\* C1: after any sequence of operations every connection has cwnd >= 1 and
\* ssthresh >= 2, whatever its congestion algorithm.
C1_WindowFloors ==
    \A e \in Endpoints :
        /\ conn[e].congestion_window >= MSS
        /\ conn[e].ssthresh >= 2 * MSS

\* C3: handle_ack with number A removes exactly the entries with
\* end_seq <= A; they are a prefix of the table, the entries with end_seq > A
\* stay in their order, and nothing with end_seq <= A is left.
C3_CumulativeAckRemovesPrefix ==
    \A i \in HandleAckEvents :
        LET ev == events[i]
            old == ev.pre.unacked_packets
            new == ev.mid.unacked_packets
            k == Len(old) - Len(new)
        IN  /\ k >= 0
            /\ \A j \in 1..k : EndSeqOf(old[j]) <= ev.ack_num
            /\ \A j \in 1..Len(new) :
                   /\ new[j].packet = old[k + j].packet
                   /\ EndSeqOf(new[j]) > ev.ack_num

\* C3 happens: an ACK removes a first entry and keeps a later one
C3_Witness ==
    \E i \in HandleAckEvents :
        /\ Len(events[i].mid.unacked_packets) >= 1
        /\ Len(events[i].mid.unacked_packets) < Len(events[i].pre.unacked_packets)

C8_RenoFastRetransmit ==
    \A i \in HandleAckEvents :
        LET ev == events[i]
        IN  (/\ ev.pre.alg.name = "Reno"
             /\ ~ev.pre.alg.ssthresh_lowered
             /\ ev.count = 3
             /\ ev.pre.unacked_packets # <<>>)
            => /\ ev.post.ssthresh = Max(2 * MSS, ev.pre.congestion_window \div 2)
               /\ ev.post.congestion_window = ev.post.ssthresh + 3 * MSS
               /\ ev.post.congestion_state = "fast_recovery"
               /\ ev.post.alg.ssthresh = ev.post.ssthresh
               /\ ev.post.alg.congestion_window = ev.post.congestion_window
               /\ ev.post.alg.congestion_state = "fast_recovery"
               /\ ev.pre.on_metric_change =>
                      \E j \in 1..Len(ev.metrics) : ev.metrics[j].name = "fast_retx_event"
               /\ Len(ev.post.unacked_packets) = Len(ev.pre.unacked_packets)
               /\ \A j \in 1..Len(ev.pre.unacked_packets) :
                      ev.post.unacked_packets[j].packet = ev.pre.unacked_packets[j].packet

\* C8 happens: a Reno connection with a metric observer and no earlier loss
\* gets its third duplicate ACK
C8_Witness ==
    \E i \in HandleAckEvents :
        /\ events[i].pre.alg.name = "Reno"
        /\ ~events[i].pre.alg.ssthresh_lowered
        /\ events[i].count = 3
        /\ events[i].pre.unacked_packets # <<>>
        /\ events[i].pre.on_metric_change
        /\ events[i].fast_retx

\* C10: an ACK that acknowledges an entry which was retransmitted leaves
\* srtt, rttvar and rto as they were (Karn's rule).
C10_NoSampleFromRetransmitted ==
    \A i \in RttSampleEvents :
        events[i].entry.retransmit_count > 0
            => /\ events[i].after.srtt = events[i].before.srtt
               /\ events[i].after.rttvar = events[i].before.rttvar
               /\ events[i].after.rto = events[i].before.rto

\* the call the controller of SpecCC has just answered
LastCall == events[1]

\* C2: on a Reno connection ssthresh never increases from the first
\* loss-triggered reduction onward, over any sequence of ACKs, timeouts and
\* fast retransmits, and processing an ACK never changes ssthresh.
C2_RenoSsthreshNeverIncreases ==
    [][LET a == conn["client"].alg
           b == conn'["client"].alg
       IN  a.name = "Reno" =>
               /\ a.ssthresh_lowered => b.ssthresh <= a.ssthresh
               /\ events'[1].op \in {"on_ack_received", "on_fast_recovery_exit"}
                      => b.ssthresh = a.ssthresh
               /\ conn'["client"].ssthresh = b.ssthresh]_vars

\* C2 happens: after an earlier reduction a loss computes a higher
\* max(2, cwnd / 2) and ssthresh stays where it was
C2_Witness ==
    /\ events # <<>>
    /\ LastCall.op \in {"timeout", "fast_retransmit"}
    /\ LastCall.pre.name = "Reno"
    /\ LastCall.pre.ssthresh_lowered
    /\ Max(2 * MSS, LastCall.pre.congestion_window \div 2) > LastCall.pre.ssthresh
    /\ LastCall.post.ssthresh = LastCall.pre.ssthresh

\* the entries added to the data unacked table by the last action
FirstSendEvents == {i \in 1..Len(events) : events[i].type = "first_send"}

\* C5: whenever send_data, the drain inside handle_ack or drain_send_buffer
\* adds an entry to the data unacked table, the table then holds at most
\* floor(cwnd) entries.
C5_InFlightWithinWindow ==
    \A i \in FirstSendEvents : events[i].count <= events[i].cwnd \div MSS

\* C5 happens: drain_send_buffer fills the window to the last place
C5_Witness ==
    \E i \in FirstSendEvents :
        /\ events[i].via = "drain_send_buffer"
        /\ events[i].count = events[i].cwnd \div MSS
        /\ events[i].count > 1

\* the flags of the segments handed to the link so far, in order
WireFlags == [i \in 1..Len(wire) |-> wire[i].packet.flags]

ThreeWay == <<{"SYN"}, {"SYN", "ACK"}, {"ACK"}>>

IsPrefix(s, t) == Len(s) <= Len(t) /\ \A i \in 1..Len(s) : s[i] = t[i]

BothEstablished == \A e \in Endpoints : conn[e].state = "ESTABLISHED"

\* the time a segment without payload takes to be put on the link
HeaderTime == (HeaderSize * Second) \div (1024 * cfg.bandwidth)

\* every segment is processed within delay + serialization + one period of
\* the driver after it is sent; two such trips fit in the handshake RTO
RoundTripWithinRto ==
    2 * (cfg.delay + HeaderTime + cfg.period) <= conn["client"].handshake_rto

\* C6 as amended: with loss 0 and a round trip (two trips of delay +
\* serialization + one driver period) within the handshake RTO, connect and
\* repeated ticks hand exactly SYN, SYN|ACK, ACK to the link, in this order,
\* and both endpoints end up ESTABLISHED.
C6_CleanHandshake ==
    (cfg.maxLoss = 0 /\ RoundTripWithinRto)
        => /\ [](IsPrefix(WireFlags, ThreeWay))
           /\ <>[](BothEstablished /\ WireFlags = ThreeWay)

\* C6 happens: a slow but clean link has carried the three segments and both
\* endpoints are ESTABLISHED
C6_Witness ==
    /\ cfg.maxLoss = 0
    /\ RoundTripWithinRto
    /\ cfg.delay > Second
    /\ BothEstablished
    /\ WireFlags = ThreeWay

\* C6 as stated: with loss 0 and the one-way delay below the handshake RTO no
\* segment but SYN, SYN|ACK, ACK is handed to the link.
C6_DelayBelowRtoThreeSegments ==
    (cfg.maxLoss = 0 /\ cfg.delay < conn["client"].handshake_rto)
        => IsPrefix(WireFlags, ThreeWay)

\* nothing is in flight, unacknowledged or waiting at the client
Quiescent ==
    /\ queue = <<>>
    /\ conn["client"].unacked_packets = <<>>
    /\ conn["client"].send_buffer = <<>>

\* C7: on a Reno connection without loss, once 10 one-byte payloads have been
\* sent and the simulation has run until quiescent, cwnd has climbed 1, 2, ...
\* to 10, one step per ACK, and the phase is still slow_start.
C7_SlowStartRamp ==
    (/\ cfg.alg = "Reno"
     /\ count.payloads = 10
     /\ count.stalls = 0
     /\ Quiescent)
        => /\ conn["client"].congestion_window >= 10 * MSS
           /\ conn["client"].congestion_state = "slow_start"

\* the calls of check_timeouts made by the last action
CheckTimeoutsEvents == {i \in 1..Len(events) : events[i].type = "check_timeouts"}

\* the data entries a call of check_timeouts found timed out
DataTimedOut(ev) == SelectSeq(ev.timed_out, LAMBDA t : t.table = "data")

\* a Reno connection without earlier loss has data entries time out
RenoFirstTimeout(ev) ==
    /\ ev.pre.alg.name = "Reno"
    /\ ~ev.pre.alg.ssthresh_lowered
    /\ Len(DataTimedOut(ev)) >= 1

\* the timed-out segments are returned, cwnd is 1 and the phase slow_start
RenoTimeoutCollapse(ev) ==
    LET data == DataTimedOut(ev)
    IN  /\ Len(ev.out) >= Len(data)
        /\ \A j \in 1..Len(data) :
               ev.out[Len(ev.out) - Len(data) + j] = data[j].packet
        /\ ev.post.congestion_window = MSS
        /\ ev.post.congestion_state = "slow_start"

\* C9: on a Reno connection with no earlier loss, a tick in which at least
\* one data entry times out returns the timed-out segments for
\* retransmission and leaves ssthresh = max(2, cwnd_before / 2), cwnd = 1 and
\* phase slow_start, cwnd_before being cwnd before the tick.
C9_SsthreshHalfOfCwndBefore ==
    \A i \in CheckTimeoutsEvents :
        RenoFirstTimeout(events[i])
            => /\ RenoTimeoutCollapse(events[i])
               /\ events[i].post.ssthresh =
                      Max(2 * MSS, events[i].pre.congestion_window \div 2)

\* the data entries the last action found timed out
DataTimeoutEvents ==
    {i \in 1..Len(events) : events[i].type = "timeout" /\ events[i].table = "data"}

\* the entry at position j of e's table after the step was retransmitted on
\* a timeout by the step
TimedOutInStep(e, j) ==
    \E i \in DataTimeoutEvents' : events'[i].who = e /\ events'[i].index = j

\* an entry before the step and an entry after it are the same entry
SameEntry(p, q) == p.packet.seq_num = q.packet.seq_num

ReturnedCall == events[Len(events)]

\* the step is a call of receive_packet on e
Receives(e) ==
    /\ events' # <<>>
    /\ ReturnedCall'.type = "returned"
    /\ ReturnedCall'.op = "receive_packet"
    /\ ReturnedCall'.who = e

\* the client ISN that _process_packet hands to the validation of packet
ClientIsnSeen(c, packet) ==
    IF HasFlag(packet, "SYN") \/ Len(packet.data) > 0 THEN packet.seq_num
    ELSE c.remote_seq_num

\* the slots a cookie can have been generated in so far
SlotsUntil(time) == 0..CookieTimeSlot(time)

\* C12: for a fixed secret, client ISN and ports, a cookie generated in time
\* slot t is accepted by the validation when the current slot is t or t + 1
\* and rejected when the current slot is t + 2 or later (the keyed hash taken
\* as free of collisions between slots).
C12_CookieValidityWindow ==
    [][\A e \in Endpoints :
           (Receives(e) /\ conn[e].state = "SYN_RECEIVED"
                /\ HasFlag(ReturnedCall'.arg[1], "ACK")) =>
               LET packet == ReturnedCall'.arg[1]
                   c == conn[e]
               IN  \A t \in SlotsUntil(now) :
                       packet.ack_num - 1 =
                           GenerateSynCookie(c.cookie_secret, ClientIsnSeen(c, packet),
                                             packet.source_port, packet.dest_port, t)
                       => (conn'[e].state = "ESTABLISHED"
                              <=> CookieTimeSlot(now) - t \in {0, 1})]_vars

\* C12 happens: the server has accepted, in the slot after the one of the
\* generation, the ACK of the cookie it generated
C12_Witness ==
    /\ events # <<>>
    /\ ReturnedCall.type = "returned"
    /\ ReturnedCall.op = "receive_packet"
    /\ ReturnedCall.who = "server"
    /\ conn["server"].state = "ESTABLISHED"
    /\ CookieTimeSlot(now) >= 1
    /\ ReturnedCall.arg[1].ack_num - 1 =
           GenerateSynCookie(conn["server"].cookie_secret, conn["server"].remote_seq_num,
                             ReturnedCall.arg[1].source_port, ReturnedCall.arg[1].dest_port,
                             CookieTimeSlot(now) - 1)

\* the ACK carried by packet does not validate at connection c
CookieMismatch(c, packet, time) ==
    \A t \in {CookieTimeSlot(time), CookieTimeSlot(time) - 1} :
        packet.ack_num - 1 #
            GenerateSynCookie(c.cookie_secret, ClientIsnSeen(c, packet),
                              packet.source_port, packet.dest_port, t)

\* packet is the final ACK of the SYN|ACK in c's handshake table, delivered
\* 129 s or more after the SYN|ACK was generated
LateFinalAck(c, packet, time) ==
    /\ c.handshake_unacked # <<>>
    /\ packet.flags = {"ACK"}
    /\ packet.ack_num - 1 = c.handshake_unacked[1].cookie
    /\ time - c.handshake_unacked[1].send_time >= 129 * Second

\* C13: a connection in SYN_RECEIVED that receives an ACK whose cookie does
\* not validate, in particular the original final ACK 129 s or more after the
\* SYN|ACK was generated, stays in SYN_RECEIVED, returns no reply and keeps
\* its handshake table.
C13_BadCookieAckDropped ==
    [][\A e \in Endpoints :
           (/\ Receives(e)
            /\ conn[e].state = "SYN_RECEIVED"
            /\ HasFlag(ReturnedCall'.arg[1], "ACK")
            /\ \/ CookieMismatch(conn[e], ReturnedCall'.arg[1], now)
               \/ LateFinalAck(conn[e], ReturnedCall'.arg[1], now))
           => /\ conn'[e].state = "SYN_RECEIVED"
              /\ ReturnedCall'.ret = <<>>
              /\ conn'[e].handshake_unacked = conn[e].handshake_unacked]_vars

\* C13 happens: the server, still in SYN_RECEIVED, has just been handed the
\* final ACK of its SYN|ACK 129 s or more after generating it
C13_Witness ==
    /\ events # <<>>
    /\ ReturnedCall.type = "returned"
    /\ ReturnedCall.op = "receive_packet"
    /\ ReturnedCall.who = "server"
    /\ conn["server"].state = "SYN_RECEIVED"
    /\ LateFinalAck(conn["server"], ReturnedCall.arg[1], now)
    /\ ReturnedCall.ret = <<>>

\* the step is a call of connect on e
Connects(e) ==
    /\ events' # <<>>
    /\ ReturnedCall'.type = "returned"
    /\ ReturnedCall'.op = "connect"
    /\ ReturnedCall'.who = e

\* the exceptions the last call raised to its caller
Raised == {i \in 1..Len(events) : events[i].type = "raise"}

\* C18: connect in a state other than CLOSED and SYN_SENT raises and leaves
\* the connection as it was; connect from CLOSED or SYN_SENT ends in SYN_SENT
\* with a handshake table of exactly the new SYN, its retransmit count 0.
C18_ConnectOnlyFromClosedOrSynSent ==
    [][\A e \in Endpoints :
           Connects(e) =>
               IF conn[e].state \in {"CLOSED", "SYN_SENT"}
               THEN /\ Raised' = {}
                    /\ conn'[e].state = "SYN_SENT"
                    /\ Len(conn'[e].handshake_unacked) = 1
                    /\ conn'[e].handshake_unacked[1].packet.flags = {"SYN"}
                    /\ conn'[e].handshake_unacked[1].packet.seq_num + 1 = conn'[e].seq_num
                    /\ conn'[e].handshake_unacked[1].retransmit_count = 0
                    /\ ReturnedCall'.ret = <<conn'[e].handshake_unacked[1].packet>>
               ELSE /\ Raised' # {}
                    /\ ReturnedCall'.ret = <<>>
                    /\ conn'[e] = conn[e]]_vars

\* C18 happens: connect has just raised on the established client
C18_Witness ==
    /\ events # <<>>
    /\ ReturnedCall.type = "returned"
    /\ ReturnedCall.op = "connect"
    /\ ReturnedCall.who = "client"
    /\ conn["client"].state = "ESTABLISHED"
    /\ Raised # {}

\* _process_packet has no transition for packet in the state of c
NoTransition(c, packet, time) ==
    CASE c.state \in {"CLOSED", "CLOSE_WAIT", "TIME_WAIT"} -> TRUE
      [] c.state \in {"LISTEN", "SYN_SENT"} -> ~HasFlag(packet, "SYN")
      [] c.state = "SYN_RECEIVED" ->
            IF HasFlag(packet, "ACK") THEN CookieMismatch(c, packet, time)
            ELSE ~HasFlag(packet, "SYN")
      [] c.state = "ESTABLISHED" ->
            ~HasFlag(packet, "ACK") /\ ~HasFlag(packet, "FIN") /\ Len(packet.data) = 0
      [] c.state = "FIN_WAIT_1" -> ~HasFlag(packet, "ACK") /\ ~HasFlag(packet, "FIN")
      [] c.state = "FIN_WAIT_2" -> ~HasFlag(packet, "FIN")
      [] c.state \in {"CLOSING", "LAST_ACK"} -> ~HasFlag(packet, "ACK")

\* C19: a delivered segment for which the state has no transition never
\* raises, produces no reply and leaves the connection unchanged (state,
\* sequence and ack bookkeeping with the recorded remote sequence number,
\* tables, buffers, congestion variables), apart from the receive counters.
C19_NoTransitionLeavesConnection ==
    [][\A e \in Endpoints :
           (Receives(e) /\ NoTransition(conn[e], ReturnedCall'.arg[1], now)) =>
               /\ Raised' = {}
               /\ ReturnedCall'.ret = <<>>
               /\ [conn'[e] EXCEPT !.stats = conn[e].stats] = conn[e]]_vars

\* C14: for positive samples r_1 .. r_n fed to the estimator, the first gives
\* srtt = r_1 and rttvar = r_1 / 2, and every later one gives
\* rttvar' = 3/4 rttvar + 1/4 |srtt - r| with the old srtt and
\* srtt' = 7/8 srtt + 1/8 r.
C14_RttRecurrence ==
    \A i \in RttSampleEvents :
        LET r == events[i].sample
            old == events[i].before
            new == events[i].after
        IN  r > 0 =>
                IF old.srtt = None
                THEN new.srtt = r /\ new.rttvar = r \div 2
                ELSE /\ new.rttvar = (3 * old.rttvar + Abs(old.srtt - r)) \div 4
                     /\ new.srtt = (7 * old.srtt + r) \div 8

\* C14 happens: a later sample differs from the smoothed RTT it meets
C14_Witness ==
    \E i \in RttSampleEvents :
        /\ events[i].before.srtt # None
        /\ events[i].sample > events[i].before.srtt
        /\ events[i].after.srtt > events[i].before.srtt
        /\ events[i].after.rttvar # events[i].before.rttvar

\* clamp(x, lo, hi)
Clamp(x, lo, hi) == Max(lo, Min(hi, x))

\* C15: in every reachable state rto lies in [1 s, 60 s], and after each RTT
\* sample rto = clamp(srtt + max(1, 4 rttvar), 1, 60).
C15_RtoClamped ==
    /\ \A e \in Endpoints : conn[e].rto >= Second /\ conn[e].rto <= 60 * Second
    /\ \A i \in RttSampleEvents :
           events[i].sample > 0 =>
               events[i].after.rto =
                   Clamp(events[i].after.srtt + Max(Second, 4 * events[i].after.rttvar),
                         Second, 60 * Second)

\* the segments the link delivered in the last action, in the order of delivery
Arrivals ==
    SelectSeq(events, LAMBDA ev : ev.type = "link" /\ ev.status = "ARRIVED")

\* the segments the link accepted in the last action, in the order of submission
Submissions ==
    SelectSeq(events, LAMBDA ev : ev.type = "link" /\ ev.status = "TRANSMITTING")

\* the segments the link dropped at submission in the last action
Drops ==
    SelectSeq(events, LAMBDA ev : ev.type = "link" /\ ev.status = "LOST")

\* a sequence of queue items or arrivals is in non-decreasing arrival order
ArrivalOrdered(items) ==
    \A i \in 1..Len(items) : \A j \in i..Len(items) :
        items[i].arrival_time <= items[j].arrival_time

\* C16: within one tick of the link the due segments are delivered in
\* non-decreasing scheduled-arrival order (ties in submission order), for any
\* mix of segment sizes; the link queue is always in non-decreasing
\* scheduled-arrival order.
C16_ArrivalOrder ==
    /\ ArrivalOrdered(Arrivals)
    /\ ArrivalOrdered(queue)

\* the items of the queue that are due at time
Due(time) == SelectSeq(queue, LAMBDA item : item.arrival_time <= time)
NotDue(time) == SelectSeq(queue, LAMBDA item : item.arrival_time > time)

\* what the link was handed and where it goes
Addressed(items) == [i \in 1..Len(items) |-> [packet |-> items[i].packet, dest |-> items[i].dest]]

\* C17: a segment submitted to the link is either dropped at submission
\* (never enqueued, never delivered) or delivered to its destination exactly
\* once, in the first tick whose time is at or past its scheduled arrival:
\* every step delivers exactly the queued items that are due, keeps the
\* others, enqueues exactly the accepted submissions, and leaves nothing due
\* in the queue.
C17_DeliveredOnceWhenDue ==
    [][/\ [i \in 1..Len(Arrivals') |->
              [packet |-> Arrivals'[i].packet, dest |-> Arrivals'[i].dest,
               arrival_time |-> Arrivals'[i].arrival_time]]
          = Due(now')
       /\ Addressed(queue') = Addressed(NotDue(now')) \o Addressed(Submissions')
       /\ SubSeq(queue', 1, Len(NotDue(now'))) = NotDue(now')
       /\ \A i \in 1..Len(queue') : queue'[i].arrival_time > now']_vars

\* C17 happens: a tick has delivered a segment and the link has dropped a
\* segment submitted in the same tick
C17_Witness ==
    /\ Arrivals # <<>>
    /\ Drops # <<>>
    /\ Submissions # <<>>

\* the calls of drain_send_buffer in the last action that got past its two
\* early returns
DrainEvents == {i \in 1..Len(events) : events[i].type = "drain_send_buffer"}

\* C20: a call of drain_send_buffer emits at most one segment, and emits one
\* only if at least 50 ms have passed since last_paced_send_time and
\* floor(cwnd) - unacked count > 0; when it emits it sets
\* last_paced_send_time = now.
C20_DrainEmitsAtMostOne ==
    \A i \in DrainEvents :
        LET ev == events[i]
        IN  /\ Len(ev.out) <= 1
            /\ ev.out # <<>> =>
                   /\ now - ev.pre.last_paced_send_time >= MinPacingInterval
                   /\ ev.pre.congestion_window \div MSS - Len(ev.pre.unacked_packets) > 0
                   /\ ev.post.last_paced_send_time = now

\* the segments the last action handed to transmit_packet
Handed ==
    { events[i].packet :
          i \in {k \in 1..Len(events) : /\ events[k].type = "link"
                                       /\ events[k].status \in {"TRANSMITTING", "LOST"}} }

\* C21: every data segment that enters the data unacked table as a first send
\* (by send_data, by the drain inside handle_ack or by drain_send_buffer) is
\* handed to the link in the same operation.
C21_FirstSendReachesLink ==
    \A i \in FirstSendEvents : events[i].packet \in Handed

\* the payloads in the receive buffer of a connection
Received(e) == { conn[e].receive_buffer[k] : k \in 1..Len(conn[e].receive_buffer) }

\* C22: a data entry leaves the sender's unacked table only after the peer
\* has appended the entry's payload to its receive buffer, whatever the link
\* loses.
C22_AckedOnlyIfReceived ==
    \A i \in RttSampleEvents :
        events[i].entry.packet.data \in Received(Peer(events[i].who))

\* the bytes of a receive buffer's payloads, in the order of the buffer (the
\* payloads sent through TCPSimulator.send_data are numbered in the order of
\* the calls)
Bytes(buffer) == [k \in 1..Len(buffer) |-> buffer[k][1]]

\* C23: the receive buffer of a connection holds each payload of the peer at
\* most once and in increasing sequence order, also when a segment and its
\* retransmission both arrive.
C23_ReceivedOnceInOrder ==
    \A e \in Endpoints :
        LET bytes == Bytes(conn[e].receive_buffer)
        IN  \A i \in 1..Len(bytes) : \A j \in (i + 1)..Len(bytes) : bytes[i] < bytes[j]

\* the payloads of a connection that wait for their acknowledgement or for
\* their first transmission: the sequence numbers already given follow the
\* order of the calls of send_data, and every buffered payload was passed to
\* send_data after every payload that has its number
InSendOrder(c) ==
    /\ \A i, j \in 1..Len(c.unacked_packets) :
           c.unacked_packets[i].packet.seq_num < c.unacked_packets[j].packet.seq_num
               => c.unacked_packets[i].packet.data[1] < c.unacked_packets[j].packet.data[1]
    /\ \A i \in 1..Len(c.unacked_packets) : \A k \in 1..Len(c.send_buffer) :
           c.unacked_packets[i].packet.data[1] < c.send_buffer[k][1]
    /\ \A k \in 1..Len(c.send_buffer) : \A l \in (k + 1)..Len(c.send_buffer) :
           c.send_buffer[k][1] < c.send_buffer[l][1]

\* C24: payloads get their sequence numbers in the order of the calls of
\* send_data: a payload passed to send_data while earlier payloads wait in the
\* send buffer never gets a lower sequence number than they do.
C24_SequenceFollowsSendOrder ==
    \A e \in Endpoints : InSendOrder(conn[e])

\* C25: when the link loses finitely many segments and the driver loop keeps
\* running, both connections reach ESTABLISHED after connect, also when the
\* final ACK is lost and when the client sends data while the server still is
\* in SYN_RECEIVED.
C25_HandshakeCompletesUnderLoss ==
    (count.connects > 0) ~> BothEstablished

\* C26: an ESTABLISHED connection that receives a delayed SYN|ACK stays
\* ESTABLISHED and replies with a bare ACK (ACK flag only, no payload) whose
\* ack number is the SYN|ACK's seq + 1, whatever its send buffer and unacked
\* table hold.
C26_DelayedSynAckGetsBareAck ==
    [][\A e \in Endpoints :
           (/\ Receives(e)
            /\ conn[e].state = "ESTABLISHED"
            /\ {"SYN", "ACK"} \subseteq ReturnedCall'.arg[1].flags)
           => /\ conn'[e].state = "ESTABLISHED"
              /\ Len(ReturnedCall'.ret) = 1
              /\ ReturnedCall'.ret[1].flags = {"ACK"}
              /\ ReturnedCall'.ret[1].data = <<>>
              /\ ReturnedCall'.ret[1].ack_num = ReturnedCall'.arg[1].seq_num + 1]_vars

\* the segments the step's call has put in the data unacked table of e
SentInCall(e) ==
    { events'[i].packet : i \in {k \in 1..Len(events') : /\ events'[k].type = "first_send"
                                                        /\ events'[k].who = e} }

\* C27: an ESTABLISHED connection that receives a segment with a payload and
\* no FIN appends the payload to its receive buffer, sets ack_num to the
\* segment's seq + the payload's length, and returns a reply: a bare ACK with
\* that ack_num, unless handle_ack already produced a reply for the segment.
C27_PayloadBufferedAndAcked ==
    [][\A e \in Endpoints :
           (/\ Receives(e)
            /\ conn[e].state = "ESTABLISHED"
            /\ Len(ReturnedCall'.arg[1].data) > 0
            /\ ~HasFlag(ReturnedCall'.arg[1], "FIN"))
           => LET seg == ReturnedCall'.arg[1]
                  ret == ReturnedCall'.ret
              IN  /\ conn'[e].receive_buffer = Append(conn[e].receive_buffer, seg.data)
                  /\ conn'[e].ack_num = seg.seq_num + Len(seg.data)
                  /\ Len(ret) = 1
                  /\ IF SentInCall(e) = {}
                     THEN ret[1] = [source_port |-> conn[e].local_port,
                                    dest_port |-> conn[e].remote_port,
                                    seq_num |-> conn[e].seq_num,
                                    ack_num |-> seg.seq_num + Len(seg.data),
                                    flags |-> {"ACK"},
                                    data |-> <<>>]
                     ELSE ret[1] \in SentInCall(e)]_vars

\* C27 happens: a connection that already held a payload has been handed a
\* data segment, has appended its payload and has returned the bare ACK of it
C27_Witness ==
    /\ events # <<>>
    /\ ReturnedCall.type = "returned"
    /\ ReturnedCall.op = "receive_packet"
    /\ Len(ReturnedCall.arg[1].data) > 0
    /\ LET c == conn[ReturnedCall.who]
       IN  /\ c.state = "ESTABLISHED"
           /\ Len(c.receive_buffer) > 1
           /\ c.receive_buffer[Len(c.receive_buffer)] = ReturnedCall.arg[1].data
           /\ ReturnedCall.ret # <<>>
           /\ ReturnedCall.ret[1].flags = {"ACK"}
           /\ ReturnedCall.ret[1].ack_num = ReturnedCall.arg[1].seq_num + 1

\* C28: a connection in FIN_WAIT_1 that receives a segment carrying FIN (the
\* FIN|ACK that close produces included) replies with an ACK of that FIN and
\* moves to CLOSING; it moves to FIN_WAIT_2 only on an ACK without FIN.
C28_FinInFinWait1GoesToClosing ==
    [][\A e \in Endpoints :
           (Receives(e) /\ conn[e].state = "FIN_WAIT_1")
           => LET seg == ReturnedCall'.arg[1]
                  ret == ReturnedCall'.ret
              IN  /\ HasFlag(seg, "FIN") =>
                         /\ conn'[e].state = "CLOSING"
                         /\ Len(ret) = 1
                         /\ HasFlag(ret[1], "ACK")
                         /\ ret[1].ack_num = seg.seq_num + 1
                  /\ conn'[e].state = "FIN_WAIT_2" =>
                         HasFlag(seg, "ACK") /\ ~HasFlag(seg, "FIN")]_vars

\* the run of the driver loop by which the calls of close must have been made
\* for the teardown to end inside the behaviour
MaxCloseAt == 8

\* the state changes of e in the last action, as pairs
StateChanges(e) ==
    { <<events[i].old, events[i].new>> :
          i \in {k \in 1..Len(events) : events[k].type = "state_change"
                                          /\ events[k].who = e} }

ActiveClose ==
    {<<"ESTABLISHED", "FIN_WAIT_1">>, <<"FIN_WAIT_1", "FIN_WAIT_2">>,
     <<"FIN_WAIT_2", "TIME_WAIT">>}

PassiveClose ==
    {<<"ESTABLISHED", "CLOSE_WAIT">>, <<"CLOSE_WAIT", "LAST_ACK">>,
     <<"LAST_ACK", "CLOSED">>}

Open == {"CLOSED", "LISTEN", "SYN_SENT", "SYN_RECEIVED"}

\* the changes of state of e that start from ESTABLISHED or later
ClosingChanges(e) == { ch \in StateChanges(e) : ch[1] \notin Open }

\* a closes of its own accord and its peer only once it is in CLOSE_WAIT
OrderlyTeardown(a) ==
    /\ [](cfg.closers = {a} =>
              /\ ClosingChanges(a) \subseteq ActiveClose
              /\ ClosingChanges(Peer(a)) \subseteq PassiveClose)
    /\ (/\ cfg.closers = {a}
        /\ conn[a].state \in {"FIN_WAIT_1", "FIN_WAIT_2"}
        /\ conn[Peer(a)].state = "LAST_ACK"
        /\ count.advances <= MaxCloseAt)
           ~> (conn[a].state = "TIME_WAIT" /\ conn[Peer(a)].state = "CLOSED")

\* C29: without loss, when one ESTABLISHED connection calls close and its
\* peer calls close after it has reached CLOSE_WAIT, the active closer goes
\* FIN_WAIT_1 -> FIN_WAIT_2 -> TIME_WAIT, the passive closer CLOSE_WAIT ->
\* LAST_ACK -> CLOSED, and both do reach TIME_WAIT and CLOSED.
C29_OrderlyTeardown ==
    OrderlyTeardown("client") /\ OrderlyTeardown("server")

\* C29 happens: the teardown the server began has ended
C29_Witness ==
    /\ cfg.closers = {"server"}
    /\ count.calls = 2
    /\ conn["server"].state = "TIME_WAIT"
    /\ conn["client"].state = "CLOSED"

\* C30: without loss, when both ESTABLISHED connections call close before
\* either has received the other's FIN, both reach TIME_WAIT.
C30_SimultaneousClose ==
    (/\ conn["client"].state = "FIN_WAIT_1"
     /\ conn["server"].state = "FIN_WAIT_1"
     /\ count.advances <= MaxCloseAt)
        ~> (conn["client"].state = "TIME_WAIT" /\ conn["server"].state = "TIME_WAIT")

\* an entry of a table is due at time: time - send_time is above
\* min(60, base_rto * 2 ** retransmit_count)
IsDue(entry, time) ==
    time - entry.send_time > Min(60 * Second,
                                 entry.base_rto * (2 ^ Min(entry.retransmit_count, 6)))

\* what a call of check_timeouts at time does to a table: the entries stay
\* where they are, an entry that was due has one retransmission more and was
\* last sent at time, any other entry is as it was
TableAfterTimeouts(before, after, time) ==
    /\ Len(after) = Len(before)
    /\ \A i \in 1..Len(before) :
           /\ after[i].packet = before[i].packet
           /\ after[i].base_rto = before[i].base_rto
           /\ IF IsDue(before[i], time)
              THEN /\ after[i].retransmit_count = before[i].retransmit_count + 1
                   /\ after[i].send_time = time
              ELSE after[i] = before[i]

\* the segments of the entries of a table that are due at time, in the
\* table's order
DuePackets(table, time) ==
    LET due == SelectSeq(table, LAMBDA entry : IsDue(entry, time))
    IN  [i \in 1..Len(due) |-> due[i].packet]

\* a call of check_timeouts at time retransmits exactly the due entries of
\* the two tables and returns each of them once
TimeoutsExact(ev, time) ==
    /\ TableAfterTimeouts(ev.pre.handshake_unacked, ev.post.handshake_unacked, time)
    /\ TableAfterTimeouts(ev.pre.unacked_packets, ev.post.unacked_packets, time)
    /\ ev.out = DuePackets(ev.pre.handshake_unacked, time)
                    \o DuePackets(ev.pre.unacked_packets, time)
    /\ Len(ev.timed_out) = Len(ev.out)

\* C31: check_timeouts retransmits an entry of either unacked table if and
\* only if now - send_time > min(60, base_rto * 2^retransmit_count); each such
\* entry gets retransmit_count + 1 and send_time = now and is returned once,
\* the other entries are unchanged, and no step changes base_rto of an entry.
C31_TimeoutsExactlyTheDue ==
    [][/\ \A i \in CheckTimeoutsEvents' : TimeoutsExact(events'[i], now')
       /\ \A e \in Endpoints :
              /\ \A i \in 1..Len(conn[e].unacked_packets) :
                     \A j \in 1..Len(conn'[e].unacked_packets) :
                         SameEntry(conn[e].unacked_packets[i], conn'[e].unacked_packets[j])
                             => conn'[e].unacked_packets[j].base_rto =
                                    conn[e].unacked_packets[i].base_rto
              /\ \A i \in 1..Len(conn[e].handshake_unacked) :
                     \A j \in 1..Len(conn'[e].handshake_unacked) :
                         conn'[e].handshake_unacked[j].base_rto =
                             conn[e].handshake_unacked[i].base_rto]_vars

\* C31 happens: a call of check_timeouts finds one data entry due and
\* retransmits it while another entry of the table, not due, stays as it was
C31_Witness ==
    \E i \in CheckTimeoutsEvents :
        /\ TimeoutsExact(events[i], now)
        /\ \E j, k \in 1..Len(events[i].pre.unacked_packets) :
               /\ IsDue(events[i].pre.unacked_packets[j], now)
               /\ ~IsDue(events[i].pre.unacked_packets[k], now)
               /\ events[i].post.unacked_packets[j].send_time = now
               /\ events[i].post.unacked_packets[k] = events[i].pre.unacked_packets[k]

\* a handshake entry is retransmitted on a timeout, too
C31_HandshakeWitness ==
    \E i \in CheckTimeoutsEvents :
        /\ TimeoutsExact(events[i], now)
        /\ \E j \in 1..Len(events[i].pre.handshake_unacked) :
               IsDue(events[i].pre.handshake_unacked[j], now)

\* the handshake entries a call of check_timeouts found timed out
HandshakeTimedOut(ev) == SelectSeq(ev.timed_out, LAMBDA t : t.table = "handshake")

\* the controller after n calls of on_packet_loss("timeout") at time
RECURSIVE AfterTimeouts(_, _, _)
AfterTimeouts(a, n, time) ==
    IF n = 0 THEN a ELSE AfterTimeouts(OnPacketLoss(a, "timeout", time), n - 1, time)

\* the congestion state and the RTT estimator of a connection
CongestionAndRtt(c) ==
    <<c.congestion_window, c.ssthresh, c.congestion_state, c.alg, c.srtt, c.rttvar, c.rto>>

\* C32: timeouts of handshake entries (SYN, SYN|ACK) leave cwnd, ssthresh,
\* phase, srtt, rttvar and rto unchanged; the congestion controller's loss
\* handler is invoked once for every data entry that timed out and for
\* nothing else, and no timeout touches the RTT estimator.
C32_HandshakeTimeoutsLeaveCongestion ==
    \A i \in CheckTimeoutsEvents :
        LET ev == events[i]
        IN  /\ DataTimedOut(ev) = <<>> => CongestionAndRtt(ev.post) = CongestionAndRtt(ev.pre)
            /\ ev.post.alg = AfterTimeouts(ev.pre.alg, Len(DataTimedOut(ev)), now)
            /\ <<ev.post.srtt, ev.post.rttvar, ev.post.rto>>
                   = <<ev.pre.srtt, ev.pre.rttvar, ev.pre.rto>>

\* C32 happens: a call of check_timeouts retransmits a SYN or a SYN|ACK
C32_Witness ==
    \E i \in CheckTimeoutsEvents :
        /\ HandshakeTimedOut(events[i]) # <<>>
        /\ DataTimedOut(events[i]) = <<>>
        /\ CongestionAndRtt(events[i].post) = CongestionAndRtt(events[i].pre)

\* a call of handle_ack counted its ACK as a duplicate
CountedDuplicate(ev) ==
    /\ ev.mid.stats.duplicate_acks = ev.pre.stats.duplicate_acks + 1
    /\ ev.count = MapGet(ev.pre.duplicate_ack_count, ev.ack_num, 0) + 1

\* C33: an incoming ACK is counted as a duplicate (duplicate counter and
\* duplicate_acks statistic incremented) if and only if ack_num ==
\* last_ack_num, last_ack_num > 0 and the data unacked table is non-empty.
C33_DuplicateOnlyWithDataOutstanding ==
    \A i \in HandleAckEvents :
        CountedDuplicate(events[i])
            <=> /\ events[i].ack_num = events[i].pre.last_ack_num
                /\ events[i].pre.last_ack_num > 0
                /\ events[i].pre.unacked_packets # <<>>

\* C34: the duplicate-ACK map is a single counter: in every reachable state
\* it has at most one key, that key is last_ack_num, every step that raises
\* last_ack_num empties it, and last_ack_num never decreases.
C34_DuplicateMapIsOneCounter ==
    [][/\ \A e \in Endpoints :
              /\ DOMAIN conn'[e].duplicate_ack_count \subseteq {conn'[e].last_ack_num}
              /\ conn'[e].last_ack_num >= conn[e].last_ack_num
       /\ \A i \in HandleAckEvents' :
              LET ev == events'[i]
              IN  /\ DOMAIN ev.post.duplicate_ack_count \subseteq {ev.post.last_ack_num}
                  /\ ev.post.last_ack_num >= ev.pre.last_ack_num
                  /\ ev.post.last_ack_num > ev.pre.last_ack_num
                         => ev.post.duplicate_ack_count = EmptyMap]_vars

\* C34 happens: an ACK above last_ack_num arrives while duplicates of
\* last_ack_num are counted, and the map is emptied
C34_Witness ==
    \E i \in HandleAckEvents :
        /\ \E k \in DOMAIN events[i].pre.duplicate_ack_count :
               events[i].pre.duplicate_ack_count[k] > 0
        /\ events[i].ack_num > events[i].pre.last_ack_num
        /\ events[i].mid.duplicate_ack_count = EmptyMap
        /\ events[i].mid.last_ack_num = events[i].ack_num

\* a call of handle_ack on a NewReno connection in fast_recovery gets a
\* partial ACK: it removes an entry that was fast-retransmitted (last sent
\* after its first send) and leaves an entry that was outstanding at the
\* time of that retransmission
PartialAck(ev) ==
    LET old == ev.pre.unacked_packets
        new == ev.mid.unacked_packets
        k == Len(old) - Len(new)
    IN  /\ ev.pre.alg.name = "NewReno"
        /\ ev.pre.congestion_state = "fast_recovery"
        /\ ~ev.fast_retx
        /\ \E r \in 1..k :
               /\ old[r].retransmit_count >= 1
               /\ old[r].send_time > old[r].first_send_time
               /\ \E q \in 1..Len(new) : new[q].first_send_time < old[r].send_time

\* C35: with NewReno, a partial ACK received in fast_recovery increases cwnd
\* by 1 and leaves the connection in fast_recovery.
C35_PartialAckStaysInRecovery ==
    \A i \in HandleAckEvents :
        PartialAck(events[i])
            => /\ events[i].mid.congestion_window = events[i].pre.congestion_window + MSS
               /\ events[i].mid.congestion_state = "fast_recovery"

\* the connection's cached congestion triple is the triple of its controller
TripleCached(c) ==
    <<c.congestion_window, c.ssthresh, c.congestion_state>>
        = <<c.alg.congestion_window, c.alg.ssthresh, c.alg.congestion_state>>

\* C36: the connection's cached congestion triple (congestion_window,
\* ssthresh, congestion_state) equals the triple held by its congestion
\* controller after every operation, for all four algorithms: after every
\* step, and after every call of handle_ack and of check_timeouts within it.
C36_CachedTripleIsControllers ==
    /\ \A e \in Endpoints : TripleCached(conn[e])
    /\ \A i \in HandleAckEvents \cup CheckTimeoutsEvents : TripleCached(events[i].post)

\* C36 happens: a fast retransmit has moved the controller to fast_recovery
\* with a window above the initial one, and the connection holds the same
C36_Witness ==
    \E e \in Endpoints :
        /\ conn[e].alg.congestion_state = "fast_recovery"
        /\ conn[e].alg.congestion_window > MSS
        /\ TripleCached(conn[e])

\* the states of a connection that has sent its FIN
FinSent == {"FIN_WAIT_1", "FIN_WAIT_2", "CLOSING", "TIME_WAIT", "LAST_ACK"}

\* the segments of a data unacked table
PacketsOf(table) == {table[i].packet : i \in 1..Len(table)}

\* C37: after an endpoint has sent its FIN (state FIN_WAIT_1 or later, or
\* LAST_ACK), no new data segment is first-sent by it: neither the drain of
\* handle_ack nor drain_send_buffer adds an entry to the data unacked table
\* of a connection in one of these states.
C37_NoFirstSendAfterFin ==
    \A i \in HandleAckEvents \cup DrainEvents :
        events[i].pre.state \in FinSent
            => PacketsOf(events[i].post.unacked_packets)
                   \subseteq PacketsOf(events[i].pre.unacked_packets)

\* C38: BBR loss response: on timeout both ssthresh and cwnd are halved with
\* a floor of 4, and on fast retransmit both are multiplied by 0.875; the new
\* ssthresh is allowed to be taken from the old ssthresh or, as the other
\* controllers do, from the old cwnd.
C38_BBRLossResponse ==
    (events # <<>> /\ LastCall.pre.name = "BBR")
        => LET pre == LastCall.pre
               post == LastCall.post
           IN  /\ LastCall.op = "timeout"
                      => /\ post.congestion_window = Max(4 * MSS, pre.congestion_window \div 2)
                         /\ post.ssthresh \in {Max(4 * MSS, pre.ssthresh \div 2),
                                               Max(4 * MSS, pre.congestion_window \div 2)}
               /\ LastCall.op = "fast_retransmit"
                      => /\ post.congestion_window = (pre.congestion_window * 7) \div 8
                         /\ post.ssthresh \in {(pre.ssthresh * 7) \div 8,
                                               (pre.congestion_window * 7) \div 8}

\* C39: under any sequence of ACKs and losses the BBR phase only moves
\* STARTUP -> DRAIN -> PROBE_BW: STARTUP is left exactly by an ACK after which
\* cwnd >= ssthresh, DRAIN exactly by an ACK that finds cwnd <= ssthresh; no
\* loss changes the phase, and PROBE_RTT is never reached.
C39_BBRPhasesOnlyForward ==
    [][LET a == conn["client"].alg
           b == conn'["client"].alg
           acked == events'[1].op = "on_ack_received"
       IN  a.name = "BBR" =>
               /\ b.bbr_state # "PROBE_RTT"
               /\ a.bbr_state = "STARTUP" =>
                      b.bbr_state = (IF acked /\ b.congestion_window >= b.ssthresh
                                     THEN "DRAIN" ELSE "STARTUP")
               /\ a.bbr_state = "DRAIN" =>
                      b.bbr_state = (IF acked /\ a.congestion_window <= a.ssthresh
                                     THEN "PROBE_BW" ELSE "DRAIN")
               /\ a.bbr_state = "PROBE_BW" => b.bbr_state = "PROBE_BW"]_vars

\* C39 happens: a BBR controller that has had a loss is in PROBE_BW and is
\* called again
C39_Witness ==
    /\ events # <<>>
    /\ LastCall.pre.name = "BBR"
    /\ LastCall.pre.bbr_state = "PROBE_BW"
    /\ LastCall.op \in {"timeout", "fast_retransmit"}
    /\ LastCall.post.bbr_state = "PROBE_BW"

\* a Cubic controller in congestion avoidance with a window of 20 segments
CubicAtTwenty ==
    [InitAlg("Cubic") EXCEPT !.congestion_window = 20 * MSS,
                             !.congestion_state = "congestion_avoidance",
                             !.w_max = 16 * MSS]

\* what a Cubic fast retransmit leaves of a controller
CubicAfterFastRetransmit(pre, post) ==
    /\ post.w_max = pre.congestion_window
    /\ post.ssthresh = Max(2 * MSS, (pre.congestion_window * 7) \div 10)
    /\ post.congestion_window = (pre.congestion_window * 7) \div 10
    /\ post.congestion_state = "fast_recovery"

\* C40: a Cubic fast retransmit with cwnd = c before the loss leaves
\* w_max = c, ssthresh = max(2, 0.7 c), cwnd = 0.7 c and phase fast_recovery
\* (c = 20 gives w_max 20, ssthresh 14, cwnd 14); the fast-recovery exit that
\* follows leaves cwnd, ssthresh and w_max unchanged and moves to
\* congestion_avoidance.
C40_CubicFastRetransmit ==
    /\ LET post == CubicOnPacketLoss(CubicAtTwenty, "fast_retransmit", now)
       IN  /\ CubicAfterFastRetransmit(CubicAtTwenty, post)
           /\ <<post.w_max, post.ssthresh, post.congestion_window>>
                  = <<20 * MSS, 14 * MSS, 14 * MSS>>
    /\ (events # <<>> /\ LastCall.pre.name = "Cubic")
           => /\ LastCall.op = "fast_retransmit"
                     => CubicAfterFastRetransmit(LastCall.pre, LastCall.post)
              /\ LastCall.op = "on_fast_recovery_exit"
                     => /\ LastCall.post.congestion_window = LastCall.pre.congestion_window
                        /\ LastCall.post.ssthresh = LastCall.pre.ssthresh
                        /\ LastCall.post.w_max = LastCall.pre.w_max
                        /\ LastCall.post.congestion_state = "congestion_avoidance"

\* C40 happens: a Cubic controller leaves the fast recovery a fast
\* retransmit has put it in, with a window below ssthresh
C40_Witness ==
    /\ events # <<>>
    /\ LastCall.pre.name = "Cubic"
    /\ LastCall.op = "on_fast_recovery_exit"
    /\ LastCall.pre.congestion_state = "fast_recovery"
    /\ LastCall.pre.w_max > 0
    /\ LastCall.pre.congestion_window < LastCall.pre.ssthresh
    /\ LastCall.post.congestion_window = LastCall.pre.congestion_window
====
